---- MODULE Spec2Model ----
(***************************************************************************)
(* A model of the two post-processing tools of verified-scheduling:        *)
(*   replace_calloc.py  (expression simplifier, calloc -> VLA rewriter)    *)
(*   wrap.py            (array loader, constant folder, wrapper generator) *)
(* Text is a sequence of one-character strings; the regular expressions of *)
(* the source are values interpreted by a backtracking matcher that        *)
(* follows Python's re semantics (leftmost match, greedy quantifiers,      *)
(* ordered alternation).                                                   *)
(***************************************************************************)
EXTENDS Integers, Sequences, FiniteSets, TLC

(***************************************************************************)
(* Characters and character classes                                        *)
(***************************************************************************)
Lower == {"a","b","c","d","e","f","g","h","i","j","k","l","m",
          "n","o","p","q","r","s","t","u","v","w","x","y","z"}
Upper == {"A","B","C","D","E","F","G","H","I","J","K","L","M",
          "N","O","P","Q","R","S","T","U","V","W","X","Y","Z"}
Digit == {"0","1","2","3","4","5","6","7","8","9"}
\* \w
WordCh == Lower \cup Upper \cup Digit \cup {"_"}
\* \s
SpaceCh == {" ", "\n", "\t"}

RECURSIVE Flat(_)
\* ''.join(parts)
Flat(parts) ==
    IF parts = << >> THEN << >> ELSE Head(parts) \o Flat(Tail(parts))

(***************************************************************************)
(* Regular expressions (Python re): a pattern is a sequence of nodes       *)
(***************************************************************************)
\* one character of the set S
One(S) == [t |-> "set", in |-> S, neg |-> FALSE, min |-> 1, many |-> FALSE]
\* S+ (greedy)
Plus(S) == [t |-> "set", in |-> S, neg |-> FALSE, min |-> 1, many |-> TRUE]
\* S* (greedy)
Star(S) == [t |-> "set", in |-> S, neg |-> FALSE, min |-> 0, many |-> TRUE]
\* [^S]+ (greedy)
NotPlus(S) == [t |-> "set", in |-> S, neg |-> TRUE, min |-> 1, many |-> TRUE]
\* a literal string
Lit(str) == <<[t |-> "str", str |-> str]>>
\* ( and ) of capturing group g
Open(g) == [t |-> "open", g |-> g]
Close(g) == [t |-> "close", g |-> g]
\* (?:a|b|...)
Alt(alts) == [t |-> "alt", alts |-> alts]
\* (?=p) and (?!p)
Ahead(p) == [t |-> "look", p |-> p, neg |-> FALSE]
NotAhead(p) == [t |-> "look", p |-> p, neg |-> TRUE]
\* \b
WordB == [t |-> "wordb"]

\* Python's None, where a value may be absent
None == <<"None">>
NoMatch == [ok |-> FALSE, start |-> 0, end |-> 0, caps |-> << >>]
NoCaps == [g \in 1..2 |-> <<0, 0>>]

InSet(n, c) == (c \in n.in) # n.neg

\* how many characters from position i on are in the node's class
RunLen(n, s, i) ==
    LET stops == {j \in i..Len(s) : ~InSet(n, s[j])}
    IN IF stops = {} THEN (IF i > Len(s) THEN 0 ELSE Len(s) - i + 1)
       ELSE (CHOOSE j \in stops : \A h \in stops : j <= h) - i

IsWordAt(s, i) == i >= 1 /\ i <= Len(s) /\ s[i] \in WordCh

RECURSIVE MatchAt(_, _, _, _, _)
RECURSIVE Greedy(_, _, _, _, _, _)
RECURSIVE AltTry(_, _, _, _, _, _)

\* the rest of the pattern, from node k on, matched at position i
MatchAt(pat, k, s, i, caps) ==
    IF k > Len(pat) THEN [ok |-> TRUE, start |-> 0, end |-> i, caps |-> caps]
    ELSE
      CASE pat[k].t = "set" ->
             Greedy(pat, k, s, i, caps,
                    IF pat[k].many THEN RunLen(pat[k], s, i)
                    ELSE IF RunLen(pat[k], s, i) > 0 THEN 1 ELSE 0)
        [] pat[k].t = "str" /\ i + Len(pat[k].str) - 1 <= Len(s)
              /\ SubSeq(s, i, i + Len(pat[k].str) - 1) = pat[k].str ->
             MatchAt(pat, k + 1, s, i + Len(pat[k].str), caps)
        [] pat[k].t = "open" ->
             MatchAt(pat, k + 1, s, i, [caps EXCEPT ![pat[k].g] = <<i, i>>])
        [] pat[k].t = "close" ->
             MatchAt(pat, k + 1, s, i, [caps EXCEPT ![pat[k].g] = <<caps[pat[k].g][1], i>>])
        [] pat[k].t = "alt" -> AltTry(pat, k, s, i, caps, 1)
        [] pat[k].t = "look" /\ MatchAt(pat[k].p, 1, s, i, caps).ok # pat[k].neg ->
             MatchAt(pat, k + 1, s, i, caps)
        [] pat[k].t = "wordb" /\ IsWordAt(s, i - 1) # IsWordAt(s, i) ->
             MatchAt(pat, k + 1, s, i, caps)
        [] OTHER -> NoMatch

\* the first result if it is a match, else the second
OrElse(r, other) == IF r.ok THEN r ELSE other

\* a quantified class taking c characters, then fewer (backtracking)
Greedy(pat, k, s, i, caps, c) ==
    IF c < pat[k].min THEN NoMatch
    ELSE OrElse(MatchAt(pat, k + 1, s, i + c, caps), Greedy(pat, k, s, i, caps, c - 1))

\* the alternatives of an alternation, in order
AltTry(pat, k, s, i, caps, j) ==
    IF j > Len(pat[k].alts) THEN NoMatch
    ELSE OrElse(MatchAt(pat[k].alts[j] \o SubSeq(pat, k + 1, Len(pat)), 1, s, i, caps),
                AltTry(pat, k, s, i, caps, j + 1))

\* the match that starts at the least of the positions, if there is one
Leftmost(pat, s, starts) ==
    IF starts = {} THEN NoMatch
    ELSE [MatchAt(pat, 1, s, CHOOSE h \in starts : \A g \in starts : h <= g, NoCaps)
             EXCEPT !.start = CHOOSE h \in starts : \A g \in starts : h <= g]
\* re.search from position i: the leftmost match
Search(pat, s, i) ==
    Leftmost(pat, s, {h \in i..(Len(s) + 1) : MatchAt(pat, 1, s, h, NoCaps).ok})

RECURSIVE FindAll(_, _, _)
\* the match m and the matches after it
MatchesFrom(pat, s, m) ==
    IF ~m.ok THEN << >> ELSE <<m>> \o FindAll(pat, s, m.end)
\* the non-overlapping matches re.sub replaces, left to right (no pattern
\* of the source matches the empty string)
FindAll(pat, s, i) == MatchesFrom(pat, s, Search(pat, s, i))

\* match.group(g); group 0 is the whole match
Group(s, m, g) ==
    IF g = 0 THEN SubSeq(s, m.start, m.end - 1)
    ELSE SubSeq(s, m.caps[g][1], m.caps[g][2] - 1)

\* the text s with its matches ms replaced by the texts repls
Sub(s, ms, repls) ==
    LET before(j) == SubSeq(s, IF j = 1 THEN 1 ELSE ms[j - 1].end, ms[j].start - 1)
        last == IF ms = << >> THEN 1 ELSE ms[Len(ms)].end
    IN Flat([j \in 1..Len(ms) |-> before(j) \o repls[j]]) \o SubSeq(s, last, Len(s))

\* a replacement template is a sequence of parts: \g and plain text
Ref(g) == <<"group", g>>
Text(str) == <<"text", str>>
\* match.expand(repl)
Expand(repl, s, m) ==
    Flat([j \in 1..Len(repl) |->
            IF repl[j][1] = "group" THEN Group(s, m, repl[j][2]) ELSE repl[j][2]])
SubTemplate(s, ms, repl) ==
    IF ms = << >> THEN s ELSE Sub(s, ms, [j \in 1..Len(ms) |-> Expand(repl, s, ms[j])])
\* re.sub(pat, repl, s), repl a template (the empty text holds no match)
ReSub(pat, repl, s) ==
    IF s = << >> THEN << >> ELSE SubTemplate(s, FindAll(pat, s, 1), repl)

IsSpace(c) == c \in SpaceCh

RECURSIVE LStrip(_)
LStrip(s) == IF s # << >> /\ IsSpace(Head(s)) THEN LStrip(Tail(s)) ELSE s
RECURSIVE RStrip(_)
RStrip(s) ==
    IF s # << >> /\ IsSpace(s[Len(s)]) THEN RStrip(SubSeq(s, 1, Len(s) - 1)) ELSE s
\* str.strip()
Strip(s) == RStrip(LStrip(s))

DigitVal(c) ==
    CASE c = "0" -> 0 [] c = "1" -> 1 [] c = "2" -> 2 [] c = "3" -> 3
      [] c = "4" -> 4 [] c = "5" -> 5 [] c = "6" -> 6 [] c = "7" -> 7
      [] c = "8" -> 8 [] c = "9" -> 9

RECURSIVE NumVal(_)
\* the value of a run of decimal digits
NumVal(ds) ==
    IF ds = << >> THEN 0
    ELSE 10 * NumVal(SubSeq(ds, 1, Len(ds) - 1)) + DigitVal(ds[Len(ds)])

RECURSIVE SkipSp(_, _)
SkipSp(s, i) == IF i <= Len(s) /\ s[i] = " " THEN SkipSp(s, i + 1) ELSE i

(***************************************************************************)
(* replace_calloc.py: simplify_expression                                  *)
(***************************************************************************)
\* r'\(([^)]+)\s*-\s*\(0\)\)'
SubZeroPat ==
    Lit(<<"(">>) \o <<Open(1), NotPlus({")"}), Close(1), Star(SpaceCh)>>
    \o Lit(<<"-">>) \o <<Star(SpaceCh)>> \o Lit(<<"(", "0", ")", ")">>)
\* r'\(([^)]+)\s*\+\s*\(0\)\)'
AddZeroPat ==
    Lit(<<"(">>) \o <<Open(1), NotPlus({")"}), Close(1), Star(SpaceCh)>>
    \o Lit(<<"+">>) \o <<Star(SpaceCh)>> \o Lit(<<"(", "0", ")", ")">>)
\* r'\(0\)'
ParenZeroPat == Lit(<<"(", "0", ")">>)
\* r'\((\w+)\)\s*\*\s*\((\w+)\)'
ParenMulPat ==
    Lit(<<"(">>) \o <<Open(1), Plus(WordCh), Close(1)>> \o Lit(<<")">>)
    \o <<Star(SpaceCh)>> \o Lit(<<"*">>) \o <<Star(SpaceCh)>>
    \o Lit(<<"(">>) \o <<Open(2), Plus(WordCh), Close(2)>> \o Lit(<<")">>)

\* re.sub four times, then strip
simplify_expression(expr) ==
    Strip(ReSub(ParenMulPat, <<Ref(1), Text(<<" ", "*", " ">>), Ref(2)>>,
          ReSub(ParenZeroPat, <<Text(<<"0">>)>>,
          ReSub(AddZeroPat, <<Ref(1)>>,
          ReSub(SubZeroPat, <<Ref(1)>>, expr)))))

(***************************************************************************)
(* replace_calloc.py: transform_calloc_to_vla                              *)
(***************************************************************************)
\* r"float \*(\w+) = calloc\(([^,]+), sizeof\(float\)\);"
calloc_pattern ==
    Lit(<<"f", "l", "o", "a", "t", " ", "*">>) \o <<Open(1), Plus(WordCh), Close(1)>>
    \o Lit(<<" ", "=", " ", "c", "a", "l", "l", "o", "c", "(">>) \o <<Open(2), NotPlus({","}), Close(2)>>
    \o Lit(<<",", " ", "s", "i", "z", "e", "o", "f", "(", "f", "l", "o", "a", "t", ")", ")", ";">>)
\* r"free\((\w+)\);"
free_pattern ==
    Lit(<<"f", "r", "e", "e", "(">>) \o <<Open(1), Plus(WordCh), Close(1)>> \o Lit(<<")", ";">>)
\* r'float (\w+)\[([^\]]+)\];'
vla_pattern ==
    Lit(<<"f", "l", "o", "a", "t", " ">>) \o <<Open(1), Plus(WordCh), Close(1)>> \o Lit(<<"[">>)
    \o <<Open(2), NotPlus({"]"}), Close(2)>> \o Lit(<<"]", ";">>)
\* r'(\w+)\s*-\s*0(?!\w)'
MinusZeroPat ==
    <<Open(1), Plus(WordCh), Close(1), Star(SpaceCh)>> \o Lit(<<"-">>)
    \o <<Star(SpaceCh)>> \o Lit(<<"0">>) \o <<NotAhead(<<One(WordCh)>>)>>
\* r'(\w+)\s*\+\s*0(?!\w)'
PlusZeroPat ==
    <<Open(1), Plus(WordCh), Close(1), Star(SpaceCh)>> \o Lit(<<"+">>)
    \o <<Star(SpaceCh)>> \o Lit(<<"0">>) \o <<NotAhead(<<One(WordCh)>>)>>
\* r'\((\w+)\)(?=\s*[+\-*/\)])'
ParenWordPat ==
    Lit(<<"(">>) \o <<Open(1), Plus(WordCh), Close(1)>> \o Lit(<<")">>)
    \o <<Ahead(<<Star(SpaceCh), One({"+", "-", "*", "/", ")"})>>)>>

\* stats at the start of the transform
NoStats == [callocs_replaced |-> 0, frees_removed |-> 0, simplifications |-> 0,
            warnings |-> << >>]
\* A callback of re.sub returns a text and adds to stats: a result is the
\* text with what the call adds.  A warning is kept as the name it is about.
\* replace_calloc, from var_name, size_expr and simplified on
CallocResult(var_name, size_expr, simplified) ==
    [text |-> <<"f", "l", "o", "a", "t", " ">> \o var_name \o <<"[">> \o simplified \o <<"]", ";">>,
     callocs_replaced |-> 1, frees_removed |-> 0,
     simplifications |-> IF simplified # size_expr THEN 1 ELSE 0,
     \* if "(" in simplified and simplified.count("(") > 1
     warnings |-> IF Cardinality({j \in 1..Len(simplified) : simplified[j] = "("}) > 1
                  THEN <<var_name>> ELSE << >>]
replace_calloc(s, m) ==
    CallocResult(Group(s, m, 1), Group(s, m, 2), simplify_expression(Group(s, m, 2)))
replace_free(s, m) ==
    [text |-> <<"/", "/", " ">> \o Group(s, m, 1) \o <<" ", "a", "u", "t", "o", "-", "f", "r", "e", "e", "d", " ", "(", "V", "L", "A", ")">>,
     callocs_replaced |-> 0, frees_removed |-> 1, simplifications |-> 0, warnings |-> << >>]
\* simplify_vla, from var_name, size_expr and simplified on
VlaResult(var_name, size_expr, simplified) ==
    [text |-> <<"f", "l", "o", "a", "t", " ">> \o var_name \o <<"[">> \o simplified \o <<"]", ";">>,
     callocs_replaced |-> 0, frees_removed |-> 0,
     simplifications |-> IF simplified # size_expr THEN 1 ELSE 0,
     warnings |-> << >>]
simplify_vla(s, m) ==
    VlaResult(Group(s, m, 1), Group(s, m, 2), simplify_expression(Group(s, m, 2)))

RECURSIVE Tally(_, _)
\* stats after the calls that returned the results rs, in order
Tally(st, rs) ==
    IF rs = << >> THEN st
    ELSE Tally([callocs_replaced |-> st.callocs_replaced + Head(rs).callocs_replaced,
                frees_removed |-> st.frees_removed + Head(rs).frees_removed,
                simplifications |-> st.simplifications + Head(rs).simplifications,
                warnings |-> st.warnings \o Head(rs).warnings],
               Tail(rs))
\* re.sub with a callback: the matches ms of the text replaced by the
\* texts of the results rs, and stats brought up to date
Replaced(st, ms, rs) ==
    IF ms = << >> THEN st
    ELSE [code |-> Sub(st.code, ms, [j \in 1..Len(ms) |-> rs[j].text]),
          stats |-> Tally(st.stats, rs)]

\* re.sub(calloc_pattern, replace_calloc, c_code)
CallocsOf(st, ms) == Replaced(st, ms, [j \in 1..Len(ms) |-> replace_calloc(st.code, ms[j])])
ReplaceCallocs(st) == CallocsOf(st, FindAll(calloc_pattern, st.code, 1))
\* re.sub(free_pattern, replace_free, transformed)
FreesOf(st, ms) == Replaced(st, ms, [j \in 1..Len(ms) |-> replace_free(st.code, ms[j])])
ReplaceFrees(st) == FreesOf(st, FindAll(free_pattern, st.code, 1))
\* re.sub(vla_pattern, simplify_vla, transformed)
VlasOf(st, ms) == Replaced(st, ms, [j \in 1..Len(ms) |-> simplify_vla(st.code, ms[j])])
SimplifyVlas(st) == VlasOf(st, FindAll(vla_pattern, st.code, 1))

\* one pass of the loop body of simplify_all_expressions
SimplifyPass(code) ==
    ReSub(ParenWordPat, <<Ref(1)>>,
    ReSub(ParenZeroPat, <<Text(<<"0">>)>>,
    ReSub(PlusZeroPat, <<Ref(1)>>,
    ReSub(MinusZeroPat, <<Ref(1)>>,
    ReSub(AddZeroPat, <<Ref(1)>>,
    ReSub(SubZeroPat, <<Ref(1)>>, code))))))

RECURSIVE SimplifyLoop(_, _, _)
\* while prev != code and iterations < 5
SimplifyLoop(prev, code, iterations) ==
    IF iterations >= 5 \/ (prev # <<"None">> /\ prev[2] = code) THEN code
    ELSE SimplifyLoop(<<"Some", code>>, SimplifyPass(code), iterations + 1)

simplify_all_expressions(code) == SimplifyLoop(<<"None">>, code, 0)
SimplifyAll(st) == [st EXCEPT !.code = simplify_all_expressions(st.code)]

\* (transformed_code, stats)
transform_calloc_to_vla(c_code) ==
    SimplifyAll(SimplifyVlas(ReplaceFrees(ReplaceCallocs([code |-> c_code, stats |-> NoStats]))))

(***************************************************************************)
(* wrap.py: ArrayLoader.  A parsed JSON value is a record [k, v]: k is its *)
(* kind, v the items of a list, the value num/den of a number as <<num,    *)
(* den>> (true is the integer 1, as in Python), <<0, 1>> otherwise         *)
(***************************************************************************)
JList(items) == [k |-> "list", v |-> items]
JInt(n) == [k |-> "int", v |-> <<n, 1>>]
JFloat(num, den) == [k |-> "float", v |-> <<num, den>>]
JTrue == [k |-> "bool", v |-> <<1, 1>>]
JStr == [k |-> "str", v |-> <<0, 1>>]
JNull == [k |-> "null", v |-> <<0, 1>>]
JDict == [k |-> "dict", v |-> <<0, 1>>]

RECURSIVE _flatten(_)
RECURSIVE FlattenItems(_)
\* for item in data: result.extend(ArrayLoader._flatten(item))
FlattenItems(items) ==
    IF items = << >> THEN << >>
    ELSE _flatten(Head(items)) \o FlattenItems(Tail(items))
\* a flatten that does not recurse into the items
FlattenOneLevel(data) ==
    IF data.k = "list" THEN data.v ELSE <<data>>
_flatten(data) ==
    IF data.k = "list" THEN FlattenItems(data.v) ELSE <<data>>

\* isinstance(x, (int, float)): bool is a subclass of int
IsNumeric(x) == x.k \in {"int", "float", "bool"}
\* float(x)
PyFloat(x) == [k |-> "float", v |-> x.v]

\* the file at filepath holds the JSON value, or is absent; the result is
\* <<"return", array>> or <<"raise", exception>>
load_json_array(file) ==
    IF file = <<"absent">> THEN <<"raise", "FileNotFoundError">>
    ELSE LET flat == _flatten(file[2])
         IN IF ~(\A j \in 1..Len(flat) : IsNumeric(flat[j]))
            THEN <<"raise", "ValueError">>
            ELSE <<"return", [j \in 1..Len(flat) |-> PyFloat(flat[j])]>>

(***************************************************************************)
(* wrap.py: ConstantFolder.  eval(text, {"__builtins__": {}}, {}) over the *)
(* text the folder hands it: decimal digits, identifiers, + - * / ( ) and  *)
(* blanks.  A value is [k, n, d]: an int n, a float n/d, the empty tuple;  *)
(* k = "error" stands for any exception eval raises (SyntaxError,          *)
(* NameError, ZeroDivisionError, TypeError), which fold_code treats alike. *)
(* A float is kept exactly; k = "inexact" marks a quotient that is no      *)
(* dyadic fraction, whose repr the model does not compute.                 *)
(***************************************************************************)
PyInt(n) == [k |-> "int", n |-> n, d |-> 1]
PyTuple == [k |-> "tuple", n |-> 0, d |-> 1]
PyError == [k |-> "error", n |-> 0, d |-> 1]
PyInexact == [k |-> "inexact", n |-> 0, d |-> 1]

Abs(x) == IF x < 0 THEN -x ELSE x
RECURSIVE Gcd(_, _)
Gcd(x, y) == IF y = 0 THEN x ELSE Gcd(y, x % y)
RECURSIVE IsPow2(_)
IsPow2(x) == x = 1 \/ (x > 1 /\ x % 2 = 0 /\ IsPow2(x \div 2))
\* the float n/d
MkFloat(n, d) ==
    LET g == Gcd(Abs(n), d)
    IN IF IsPow2(d \div g) THEN [k |-> "float", n |-> n \div g, d |-> d \div g]
       ELSE PyInexact
IsNum(x) == x.k \in {"int", "float"}
\* the result of a binary operator on two numbers, given as a fraction
NumResult(x, y, n, d) ==
    IF x.k = "int" /\ y.k = "int" THEN PyInt(n \div d) ELSE MkFloat(n, d)

PyAdd(x, y) ==
    IF x.k = "inexact" \/ y.k = "inexact" THEN PyInexact
    ELSE IF IsNum(x) /\ IsNum(y) THEN NumResult(x, y, x.n * y.d + y.n * x.d, x.d * y.d)
    ELSE IF x.k = "tuple" /\ y.k = "tuple" THEN PyTuple
    ELSE PyError
PySub(x, y) ==
    IF x.k = "inexact" \/ y.k = "inexact" THEN PyInexact
    ELSE IF IsNum(x) /\ IsNum(y) THEN NumResult(x, y, x.n * y.d - y.n * x.d, x.d * y.d)
    ELSE PyError
PyMul(x, y) ==
    IF x.k = "inexact" \/ y.k = "inexact" THEN PyInexact
    ELSE IF IsNum(x) /\ IsNum(y) THEN NumResult(x, y, x.n * y.n, x.d * y.d)
    ELSE IF {x.k, y.k} = {"tuple", "int"} THEN PyTuple
    ELSE PyError
\* true division: the result is a float also when both operands are ints
PyDiv(x, y) ==
    IF x.k = "inexact" \/ y.k = "inexact" THEN PyInexact
    ELSE IF IsNum(x) /\ IsNum(y) THEN
        IF y.n = 0 THEN PyError
        ELSE MkFloat((IF y.n < 0 THEN -1 ELSE 1) * x.n * y.d, x.d * Abs(y.n))
    ELSE PyError
PyNeg(x) ==
    IF x.k = "inexact" THEN PyInexact
    ELSE IF IsNum(x) THEN [x EXCEPT !.n = -x.n] ELSE PyError
PyPos(x) ==
    IF x.k = "inexact" THEN PyInexact ELSE IF IsNum(x) THEN x ELSE PyError

\* a parse: the value read and the position after it
PyFail == [val |-> PyError, i |-> 0]
Failed(r) == r.val.k = "error"
\* the next character after blanks is one of cs
NextIs(s, i, cs) == SkipSp(s, i) <= Len(s) /\ s[SkipSp(s, i)] \in cs
PyBinary(op, x, y) ==
    CASE op = "+" -> PyAdd(x, y) [] op = "-" -> PySub(x, y)
      [] op = "*" -> PyMul(x, y) [] op = "/" -> PyDiv(x, y)
\* acc op r
PyApply(op, acc, r) ==
    IF Failed(r) THEN PyFail ELSE [val |-> PyBinary(op, acc.val, r.val), i |-> r.i]

RECURSIVE PyArith(_, _)
RECURSIVE PyArithRest(_, _)
RECURSIVE PyTerm(_, _)
RECURSIVE PyTermRest(_, _)
RECURSIVE PyFactor(_, _)
RECURSIVE PyAtom(_, _)

\* '(' expr ')' read up to the expression r
PyClose(s, r) ==
    IF ~Failed(r) /\ NextIs(s, r.i, {")"}) THEN [r EXCEPT !.i = SkipSp(s, r.i) + 1]
    ELSE PyFail
\* NUMBER: n digits at i; a digit run glued to a letter, and a leading zero
\* on a nonzero number, are SyntaxErrors
PyNumber(s, i, n) ==
    IF IsWordAt(s, i + n) THEN PyFail
    ELSE IF n > 1 /\ s[i] = "0" /\ NumVal(SubSeq(s, i, i + n - 1)) # 0 THEN PyFail
    ELSE [val |-> PyInt(NumVal(SubSeq(s, i, i + n - 1))), i |-> i + n]
PyAtomAt(s, i) ==
    IF i > Len(s) THEN PyFail
    ELSE IF s[i] = "(" THEN
        IF NextIs(s, i + 1, {")"}) THEN [val |-> PyTuple, i |-> SkipSp(s, i + 1) + 1]
        ELSE PyClose(s, PyArith(s, i + 1))
    ELSE IF s[i] \in Digit THEN PyNumber(s, i, RunLen(Plus(Digit), s, i))
    ELSE PyFail
\* atom: NUMBER | NAME | '(' ')' | '(' expr ')'; a name is a NameError
PyAtom(s, i) == PyAtomAt(s, SkipSp(s, i))

\* an atom followed by '(' is a call: a NameError or a TypeError
PyNoCall(s, r) == IF ~Failed(r) /\ NextIs(s, r.i, {"("}) THEN PyFail ELSE r
PyChecked(r) == IF Failed(r) THEN PyFail ELSE r
PySigned(op, r) ==
    PyChecked([r EXCEPT !.val = IF op = "-" THEN PyNeg(r.val) ELSE PyPos(r.val)])
PyFactorAt(s, i) ==
    IF i <= Len(s) /\ s[i] \in {"+", "-"} THEN PySigned(s[i], PyFactor(s, i + 1))
    ELSE PyNoCall(s, PyAtom(s, i))
\* factor: ('+' | '-') factor | atom
PyFactor(s, i) == PyFactorAt(s, SkipSp(s, i))

\* term: factor (('*' | '/') factor)*; the text never holds ** or //
PyTermRest(s, acc) ==
    IF Failed(acc) THEN PyFail
    ELSE IF NextIs(s, acc.i, {"*", "/"})
    THEN PyTermRest(s, PyApply(s[SkipSp(s, acc.i)], acc, PyFactor(s, SkipSp(s, acc.i) + 1)))
    ELSE [acc EXCEPT !.i = SkipSp(s, acc.i)]
PyTerm(s, i) == PyTermRest(s, PyFactor(s, i))

\* arith_expr: term (('+' | '-') term)*
PyArithRest(s, acc) ==
    IF Failed(acc) THEN PyFail
    ELSE IF NextIs(s, acc.i, {"+", "-"})
    THEN PyArithRest(s, PyApply(s[SkipSp(s, acc.i)], acc, PyTerm(s, SkipSp(s, acc.i) + 1)))
    ELSE [acc EXCEPT !.i = SkipSp(s, acc.i)]
PyArith(s, i) == PyArithRest(s, PyTerm(s, i))

\* the value of a parse that took the whole text
PyWhole(s, r) ==
    IF ~Failed(r) /\ SkipSp(s, r.i) = Len(s) + 1 THEN r.val ELSE PyError
\* eval(text, {"__builtins__": {}}, {})
PyEval(s) == PyWhole(s, PyArith(s, 1))

RECURSIVE Digits(_)
\* the decimal digits of a natural number
Digits(n) ==
    LET c == CHOOSE c \in Digit : DigitVal(c) = n % 10
    IN IF n < 10 THEN <<c>> ELSE Append(Digits(n \div 10), c)
\* str(n) of an int
IntStr(n) == IF n < 0 THEN <<"-">> \o Digits(-n) ELSE Digits(n)
RECURSIVE FracDigits(_, _)
\* the digits of the fraction n/d, 0 <= n < d, d a power of 2
FracDigits(n, d) ==
    IF n = 0 THEN << >>
    ELSE Digits((10 * n) \div d) \o FracDigits((10 * n) % d, d)
\* str(x) of a value; "?" for the repr the model does not compute
PyStr(x) ==
    CASE x.k = "int" -> IntStr(x.n)
      [] x.k = "tuple" -> <<"(", ")">>
      [] x.k = "inexact" -> <<"?">>
      [] x.k = "float" ->
           LET a == Abs(x.n)
               frac == FracDigits(a % x.d, x.d)
           IN (IF x.n < 0 THEN <<"-">> ELSE << >>) \o Digits(a \div x.d) \o <<".">>
              \o (IF frac = << >> THEN <<"0">> ELSE frac)

\* r'\b' + param + r'\b'
ParamPat(param) == <<WordB>> \o Lit(param) \o <<WordB>>
\* r'\[([^\]]+)\]'
BracketPat == Lit(<<"[">>) \o <<Open(1), NotPlus({"]"}), Close(1)>> \o Lit(<<"]">>)
\* r'(<\s*|<=\s*|>\s*|>=\s*)((?:\d+|\()\s*[+\-*/]\s*(?:\d+|\)))'
ComparisonPat ==
    <<Open(1),
      Alt(<<Lit(<<"<">>) \o <<Star(SpaceCh)>>, Lit(<<"<", "=">>) \o <<Star(SpaceCh)>>,
            Lit(<<">">>) \o <<Star(SpaceCh)>>, Lit(<<">", "=">>) \o <<Star(SpaceCh)>>>>),
      Close(1), Open(2),
      Alt(<<<<Plus(Digit)>>, Lit(<<"(">>)>>),
      Star(SpaceCh), One({"+", "-", "*", "/"}), Star(SpaceCh),
      Alt(<<<<Plus(Digit)>>, Lit(<<")">>)>>),
      Close(2)>>

RECURSIVE SubstituteParams(_, _)
\* for param, value in self.param_values.items(): re.sub(...); param_values
\* is a sequence of <<name, value>> in insertion order
SubstituteParams(param_values, code) ==
    IF param_values = << >> THEN code
    ELSE SubstituteParams(Tail(param_values),
             ReSub(ParamPat(Head(param_values)[1]),
                   <<Text(IntStr(Head(param_values)[2]))>>, code))

\* fold_array_size(match), from the result of eval on
ArraySizeText(s, m, folded) ==
    IF folded.k = "error" THEN Group(s, m, 0) ELSE <<"[">> \o PyStr(folded) \o <<"]">>
fold_array_size(s, m) == ArraySizeText(s, m, PyEval(Group(s, m, 1)))
\* fold_in_comparison(match), from the result of eval on
ComparisonText(s, m, folded) ==
    IF folded.k = "error" THEN Group(s, m, 0) ELSE Group(s, m, 1) \o PyStr(folded)
fold_in_comparison(s, m) == ComparisonText(s, m, PyEval(Group(s, m, 2)))

\* re.sub(r'\[([^\]]+)\]', fold_array_size, result)
ArraySizesOf(s, ms) ==
    IF ms = << >> THEN s ELSE Sub(s, ms, [j \in 1..Len(ms) |-> fold_array_size(s, ms[j])])
FoldArraySizes(s) ==
    IF s = << >> THEN << >> ELSE ArraySizesOf(s, FindAll(BracketPat, s, 1))
\* re.sub(r'(<\s*|...)', fold_in_comparison, result)
ComparisonsOf(s, ms) ==
    IF ms = << >> THEN s ELSE Sub(s, ms, [j \in 1..Len(ms) |-> fold_in_comparison(s, ms[j])])
FoldComparisons(s) ==
    IF s = << >> THEN << >> ELSE ComparisonsOf(s, FindAll(ComparisonPat, s, 1))

RECURSIVE ComparisonPasses(_, _)
\* for _ in range(3): ... if result == prev: break
PassResult(prev, result, left) ==
    IF result = prev THEN result ELSE ComparisonPasses(result, left - 1)
ComparisonPasses(result, left) ==
    IF left = 0 THEN result ELSE PassResult(result, FoldComparisons(result), left)

\* ConstantFolder(param_values).fold_code(code)
fold_code(param_values, code) ==
    ComparisonPasses(FoldComparisons(FoldArraySizes(SubstituteParams(param_values, code))), 3)

(***************************************************************************)
(* wrap.py: WrapperGenerator.  A signature is [name, return_type, params], *)
(* params a sequence of <<type, name>>; a program is a sequence of lines   *)
(***************************************************************************)
UpperSeq == <<"A","B","C","D","E","F","G","H","I","J","K","L","M",
              "N","O","P","Q","R","S","T","U","V","W","X","Y","Z">>
LowerSeq == <<"a","b","c","d","e","f","g","h","i","j","k","l","m",
              "n","o","p","q","r","s","t","u","v","w","x","y","z">>
\* str.lower()
ToLower(s) ==
    [j \in 1..Len(s) |->
        IF s[j] \in Upper THEN LowerSeq[CHOOSE h \in 1..26 : UpperSeq[h] = s[j]] ELSE s[j]]
\* sub in s
Contains(s, sub) == Search(Lit(sub), s, 1).ok
\* param_type.endswith('*')
IsPointer(param) == param[1] # << >> /\ param[1][Len(param[1])] = "*"
\* 'output' in param_name.lower()
IsOutputName(param) == Contains(ToLower(param[2]), <<"o", "u", "t", "p", "u", "t">>)

RECURSIVE JoinWith(_, _)
\* sep.join(parts)
JoinWith(sep, parts) ==
    IF Len(parts) = 0 THEN << >>
    ELSE IF Len(parts) = 1 THEN parts[1]
    ELSE parts[1] \o sep \o JoinWith(sep, Tail(parts))

RECURSIVE SplitLines(_)
\* text.split('\n')
SplitLines(text) ==
    LET n == RunLen(NotPlus({"\n"}), text, 1)
    IN IF n = Len(text) THEN <<text>>
       ELSE <<SubSeq(text, 1, n)>> \o SplitLines(SubSeq(text, n + 2, Len(text)))

RECURSIVE ZeroPad(_, _)
ZeroPad(ds, width) == IF Len(ds) >= width THEN ds ELSE ZeroPad(<<"0">> \o ds, width)
\* f'{v:.6f}' of a float n/d whose six decimals are exact
Fixed6(x) ==
    LET n == x.v[1]
        d == x.v[2]
        a == IF n < 0 THEN -n ELSE n
    IN (IF n < 0 THEN <<"-">> ELSE << >>) \o Digits(a \div d) \o <<".">>
       \o ZeroPad(Digits(((a % d) * 1000000) \div d), 6)

RECURSIVE ScanBraces(_, _, _)
\* while pos < len(content) and brace_count > 0 (pos counts from 1 here)
ScanBraces(content, pos, brace_count) ==
    IF pos <= Len(content) /\ brace_count > 0 THEN
        ScanBraces(content, pos + 1,
                   IF content[pos] = "{" THEN brace_count + 1
                   ELSE IF content[pos] = "}" THEN brace_count - 1
                   ELSE brace_count)
    ELSE pos

\* rf'void\s+{name}\s*\([^)]+\)\s*\{{'
BodyPat(name) ==
    Lit(<<"v", "o", "i", "d">>) \o <<Plus(SpaceCh)>> \o Lit(name) \o <<Star(SpaceCh)>> \o Lit(<<"(">>)
    \o <<NotPlus({")"})>> \o Lit(<<")">>) \o <<Star(SpaceCh)>> \o Lit(<<"{">>)

\* WrapperGenerator.read_function_body: c_file is <<"absent">> or
\* <<"file", content>>; the result is None or the body text
read_function_body(name, c_file) ==
    IF c_file = <<"absent">> THEN None
    ELSE LET content == c_file[2]
             match == Search(BodyPat(name), content, 1)
         IN IF ~match.ok THEN None
            ELSE LET start == match.end
                     pos == ScanBraces(content, start, 1)
                 \* content[start:pos-1].strip()
                 IN Strip(SubSeq(content, start, pos - 2))

RECURSIVE ChunkLines(_, _)
\* for j in range(0, len(arr_data), 10): the lines of ten values, from the
\* j-th value on (j counts from 1 here)
ChunkLines(arr_data, j) ==
    IF j > Len(arr_data) THEN << >>
    ELSE LET last == IF j + 9 < Len(arr_data) THEN j + 9 ELSE Len(arr_data)
             values == JoinWith(<<",", " ">>, [h \in 1..(last - j + 1) |-> Fixed6(arr_data[j + h - 1])])
         IN <<<<" ", " ", " ", " ", " ", " ", " ", " ">> \o values \o (IF j + 10 <= Len(arr_data) THEN <<",">> ELSE << >>)>>
            \o ChunkLines(arr_data, j + 10)

RECURSIVE ArrayDecls(_, _, _)
\* the static array declarations: one per input-buffer parameter that has
\* an array argument
ArrayDecls(params, array_args, array_idx) ==
    IF params = << >> THEN << >>
    ELSE IF IsPointer(Head(params)) /\ ~IsOutputName(Head(params))
            /\ array_idx < Len(array_args) THEN
        LET arr_data == array_args[array_idx + 1]
        IN <<<<" ", " ", " ", " ", "f", "l", "o", "a", "t", " ">> \o Head(params)[2] \o <<"[">> \o IntStr(Len(arr_data)) \o <<"]", " ", "=", " ", "{">>>>
           \o ChunkLines(arr_data, 1) \o <<<<" ", " ", " ", " ", "}", ";">>>>
           \o ArrayDecls(Tail(params), array_args, array_idx + 1)
    ELSE ArrayDecls(Tail(params), array_args, array_idx)

RECURSIVE CallArgsByName(_, _, _)
\* call_args without the test for an output name: every pointer parameter
\* is passed by its own name
CallArgsByName(params, int_args, int_idx) ==
    IF params = << >> THEN << >>
    ELSE IF IsPointer(Head(params)) THEN
        <<Head(params)[2]>> \o CallArgsByName(Tail(params), int_args, int_idx)
    ELSE IF int_idx < Len(int_args) THEN
        <<IntStr(int_args[int_idx + 1])>> \o CallArgsByName(Tail(params), int_args, int_idx + 1)
    ELSE CallArgsByName(Tail(params), int_args, int_idx)

RECURSIVE CallArgs(_, _, _)
\* call_args: one entry per pointer parameter, and per scalar parameter as
\* long as int_idx < len(int_args)
CallArgs(params, int_args, int_idx) ==
    IF params = << >> THEN << >>
    ELSE IF IsPointer(Head(params)) THEN
        <<IF IsOutputName(Head(params)) THEN <<"o", "u", "t", "p", "u", "t">> ELSE Head(params)[2]>>
        \o CallArgs(Tail(params), int_args, int_idx)
    ELSE IF int_idx < Len(int_args) THEN
        <<IntStr(int_args[int_idx + 1])>> \o CallArgs(Tail(params), int_args, int_idx + 1)
    ELSE CallArgs(Tail(params), int_args, int_idx)

RECURSIVE ParamValues(_, _, _, _)
\* param_values: a dict, so a later parameter of the same name keeps the
\* place of the first and takes the later value
ParamValues(params, int_args, int_idx, acc) ==
    IF params = << >> THEN acc
    ELSE IF ~IsPointer(Head(params)) /\ int_idx < Len(int_args) THEN
        LET name == Head(params)[2]
            value == int_args[int_idx + 1]
            known == \E j \in 1..Len(acc) : acc[j][1] = name
            put == IF known
                   THEN [j \in 1..Len(acc) |-> IF acc[j][1] = name THEN <<name, value>> ELSE acc[j]]
                   ELSE Append(acc, <<name, value>>)
        IN ParamValues(Tail(params), int_args, int_idx + 1, put)
    ELSE ParamValues(Tail(params), int_args, int_idx, acc)

\* r'(float \w+\[[^\]]+\]);'
VlaInitPat ==
    <<Open(1)>> \o Lit(<<"f", "l", "o", "a", "t", " ">>) \o <<Plus(WordCh)>> \o Lit(<<"[">>)
    \o <<NotPlus({"]"})>> \o Lit(<<"]">>) \o <<Close(1)>> \o Lit(<<";">>)
\* re.sub(r'(float \w+\[[^\]]+\]);', r'\1 = {0};', folded_body)
ZeroInitialised(folded_body) == ReSub(VlaInitPat, <<Ref(1), Text(<<" ", "=", " ", "{", "0", "}", ";">>)>>, folded_body)
\* for line in folded_body.split('\n'): if line.strip(): ...
Indented(lines) ==
    [j \in 1..Len(lines) |-> <<" ", " ", " ", " ">> \o lines[j]]
\* the lines of the inlined, folded and zero-initialised body
InlinedLines(params, int_args, func_body) ==
    <<<<" ", " ", " ", " ", "/", "/", " ", "I", "n", "l", "i", "n", "e", "d", " ", "a", "n", "d", " ", "c", "o", "n", "s", "t", "a", "n", "t", "-", "f", "o", "l", "d", "e", "d", " ", "f", "u", "n", "c", "t", "i", "o", "n", " ", "b", "o", "d", "y">>>>
    \o Indented(SelectSeq(
           SplitLines(ZeroInitialised(
               fold_code(ParamValues(params, int_args, 0, << >>), func_body))),
           LAMBDA line : Strip(line) # << >>))
    \o <<<< >>>>

\* the line of the direct call
CallLine(func_sig, int_args) ==
    <<" ", " ", " ", " ">> \o func_sig.name \o <<"(">>
    \o JoinWith(<<",", " ">>, CallArgs(func_sig.params, int_args, 0)) \o <<")", ";">>

\* WrapperGenerator.generate: the lines of code
generate(func_sig, c_file, int_args, array_args, output_size, inline) ==
    LET func_body == read_function_body(func_sig.name, c_file)
    IN <<IF ~inline THEN <<"#", "i", "n", "c", "l", "u", "d", "e", " ", "\"">> \o func_sig.name \o <<".", "h", "\"">>
         ELSE <<"#", "i", "n", "c", "l", "u", "d", "e", " ", "<", "s", "t", "d", "l", "i", "b", ".", "h", ">">>,
         <<"#", "i", "n", "c", "l", "u", "d", "e", " ", "<", "s", "t", "d", "i", "o", ".", "h", ">">>,
         << >>,
         <<"i", "n", "t", " ", "m", "a", "i", "n", "(", ")", " ", "{">>>>
       \o ArrayDecls(func_sig.params, array_args, 0)
       \o <<<<" ", " ", " ", " ", "f", "l", "o", "a", "t", " ", "o", "u", "t", "p", "u", "t", "[">> \o IntStr(output_size) \o <<"]", " ", "=", " ", "{", "0", "}", ";">>, << >>>>
       \o (IF inline /\ func_body # None /\ func_body # << >>
           THEN InlinedLines(func_sig.params, int_args, func_body)
           ELSE <<CallLine(func_sig, int_args), << >>>>)
       \o <<<<" ", " ", " ", " ", "/", "/", " ", "P", "r", "i", "n", "t", " ", "o", "u", "t", "p", "u", "t">>,
            <<" ", " ", " ", " ", "f", "o", "r", " ", "(", "i", "n", "t", " ", "i", " ", "=", " ", "0", ";", " ", "i", " ", "<", " ">> \o IntStr(output_size) \o <<";", " ", "i", "+", "+", ")", " ", "{">>,
            <<" ", " ", " ", " ", " ", " ", " ", " ", "p", "r", "i", "n", "t", "f", "(", "\"", "%", "f", " ", "\"", ",", " ", "o", "u", "t", "p", "u", "t", "[", "i", "]", ")", ";">>,
            <<" ", " ", " ", " ", " ", " ", " ", " ", "i", "f", " ", "(", "(", "i", " ", "+", " ", "1", ")", " ", "%", " ", "1", "0", " ", "=", "=", " ", "0", ")", " ", "p", "r", "i", "n", "t", "f", "(", "\"", "\\", "n", "\"", ")", ";">>,
            <<" ", " ", " ", " ", "}">>,
            <<" ", " ", " ", " ", "p", "r", "i", "n", "t", "f", "(", "\"", "\\", "n", "\"", ")", ";">>,
            << >>,
            <<" ", " ", " ", " ", "r", "e", "t", "u", "r", "n", " ", "0", ";">>,
            <<"}">>>>

(***************************************************************************)
(* wrap.py: main                                                           *)
(***************************************************************************)
\* int(arg): <<"return", n>> or <<"raise", "ValueError">>; the text is
\* stripped, may carry a sign, and its digits may be grouped by single
\* underscores
PyIntOf(arg) ==
    LET t == Strip(arg)
        body == IF t # << >> /\ t[1] \in {"+", "-"} THEN Tail(t) ELSE t
        ok == /\ body # << >>
              /\ \A j \in 1..Len(body) : body[j] \in Digit \cup {"_"}
              /\ body[1] \in Digit /\ body[Len(body)] \in Digit
              /\ \A j \in 1..(Len(body) - 1) : ~(body[j] = "_" /\ body[j + 1] = "_")
        n == NumVal(SelectSeq(body, LAMBDA c : c \in Digit))
    IN IF ~ok THEN <<"raise", "ValueError">>
       ELSE <<"return", IF t[1] = "-" THEN 0 - n ELSE n>>

\* the type check without its second test: only the scalars are counted
CountsMatchScalars(sig, ints, arrays) ==
    Len(ints) = Cardinality({ j \in 1..Len(sig.params) : ~IsPointer(sig.params[j]) })

\* len(int_args) == expected_int_count and len(array_args) == expected_array_count
CountsMatch(sig, ints, arrays) ==
    /\ Len(ints) = Cardinality({ j \in 1..Len(sig.params) : ~IsPointer(sig.params[j]) })
    /\ Len(arrays) = Cardinality({ j \in 1..Len(sig.params) :
                                     IsPointer(sig.params[j]) /\ ~IsOutputName(sig.params[j]) })

(***************************************************************************)
(* replace_calloc.py: process_file and main.  A file name is its text; the *)
(* disk maps each name to <<"text", content>>, <<"unreadable">> (open for  *)
(* reading raises), <<"dir">> (a directory of that name: open raises) or   *)
(* <<"absent">>                                                            *)
(***************************************************************************)
\* name.rfind('.'), counted from 1; 0 when there is no dot
LastDot(name) ==
    IF \E j \in 1..Len(name) : name[j] = "."
    THEN CHOOSE j \in 1..Len(name) : name[j] = "." /\ \A h \in (j + 1)..Len(name) : name[h] # "."
    ELSE 0

\* PurePath.suffix
PathSuffix(name) ==
    IF 1 < LastDot(name) /\ LastDot(name) < Len(name)
    THEN SubSeq(name, LastDot(name), Len(name)) ELSE << >>

\* PurePath.stem
PathStem(name) ==
    IF 1 < LastDot(name) /\ LastDot(name) < Len(name)
    THEN SubSeq(name, 1, LastDot(name) - 1) ELSE name

\* PurePath.with_suffix
with_suffix(name, suffix) == PathStem(name) \o suffix

\* a loop that skips no file
AlwaysProcessed(name) == FALSE

\* c_file.suffix == ".c" and ".vla" in c_file.stem
IsVlaOutput(name) ==
    PathSuffix(name) = <<".", "c">> /\ Contains(PathStem(name), <<".", "v", "l", "a">>)

\* the output path process_file settles on
OutputPath(input_path, output_path, in_place) ==
    IF output_path = None /\ ~in_place THEN with_suffix(input_path, <<".", "v", "l", "a", ".", "c">>)
    ELSE IF in_place THEN input_path
    ELSE output_path

\* what the file system holds at a path: a path it does not list is absent
Entry(fs, path) == IF path \in DOMAIN fs THEN fs[path] ELSE <<"absent">>

\* open(path, "r") and f.read() raise
ReadFails(fs, path) == Entry(fs, path)[1] # "text"

\* open(path, "w") raises
WriteFails(fs, path) == Entry(fs, path)[1] = "dir"

Raised(fs) == [raised |-> TRUE, disk |-> fs, stats |-> NoStats]

\* open(output_path, "w"), f.write(transformed), return stats
WriteOut(fs, out, r) ==
    IF WriteFails(fs, out) THEN Raised(fs)
    ELSE [raised |-> FALSE,
          disk |-> IF out \in DOMAIN fs
                   THEN [fs EXCEPT ![out] = IF @[1] = "unreadable" THEN @ ELSE <<"text", r.code>>]
                   ELSE [x \in DOMAIN fs \cup {out} |-> IF x = out THEN <<"text", r.code>> ELSE fs[x]],
          stats |-> r.stats]

\* process_file: what it raised or returned, and the disk it leaves
process_file(fs, input_path, output_path, in_place) ==
    IF ReadFails(fs, input_path) THEN Raised(fs)
    ELSE WriteOut(fs, OutputPath(input_path, output_path, in_place),
                  transform_calloc_to_vla(fs[input_path][2]))

\* total_stats[...] += stats[...]
AddStats(total, st) ==
    [callocs_replaced |-> total.callocs_replaced + st.callocs_replaced,
     frees_removed |-> total.frees_removed + st.frees_removed,
     files |-> total.files + 1]

(***************************************************************************)
(* Standard arithmetic evaluation of expression text (precedence of * and  *)
(* / over + and -, left associative, C integer division)                   *)
(***************************************************************************)
BadVal == [ok |-> FALSE, v |-> 0, i |-> 0]
\* truncating division
CDiv(x, y) ==
    LET ax == IF x < 0 THEN -x ELSE x
        ay == IF y < 0 THEN -y ELSE y
        q == ax \div ay
    IN IF (x < 0) # (y < 0) THEN -q ELSE q

RECURSIVE EvExpr(_, _, _, _)
RECURSIVE EvExprRest(_, _, _, _, _)
RECURSIVE EvTerm(_, _, _, _)
RECURSIVE EvTermRest(_, _, _, _, _)
RECURSIVE EvFactor(_, _, _, _)

EvFactor(s, i0, env, exact) ==
    LET i == SkipSp(s, i0) IN
    IF i > Len(s) THEN BadVal
    ELSE IF s[i] = "(" THEN
        LET r == EvExpr(s, i + 1, env, exact)
            j == SkipSp(s, r.i)
        IN IF r.ok /\ j <= Len(s) /\ s[j] = ")" THEN [r EXCEPT !.i = j + 1] ELSE BadVal
    ELSE IF s[i] = "-" THEN
        LET r == EvFactor(s, i + 1, env, exact) IN IF r.ok THEN [r EXCEPT !.v = -r.v] ELSE BadVal
    ELSE IF s[i] \in Digit THEN
        LET n == RunLen(Plus(Digit), s, i)
        IN IF IsWordAt(s, i + n) THEN BadVal
           ELSE [ok |-> TRUE, v |-> NumVal(SubSeq(s, i, i + n - 1)), i |-> i + n]
    ELSE IF s[i] \in WordCh THEN
        LET n == RunLen(Plus(WordCh), s, i)
            name == SubSeq(s, i, i + n - 1)
        IN IF name \in DOMAIN env THEN [ok |-> TRUE, v |-> env[name], i |-> i + n]
           ELSE BadVal
    ELSE BadVal

EvTermRest(s, i0, env, exact, acc) ==
    LET i == SkipSp(s, i0) IN
    IF i <= Len(s) /\ s[i] \in {"*", "/"} THEN
        LET r == EvFactor(s, i + 1, env, exact)
        IN IF ~r.ok \/ (s[i] = "/" /\ r.v = 0) THEN BadVal
           ELSE IF s[i] = "/" /\ exact /\ acc % r.v # 0 THEN BadVal
           ELSE EvTermRest(s, r.i, env, exact, IF s[i] = "*" THEN acc * r.v ELSE CDiv(acc, r.v))
    ELSE [ok |-> TRUE, v |-> acc, i |-> i]

EvTerm(s, i, env, exact) ==
    LET r == EvFactor(s, i, env, exact) IN IF r.ok THEN EvTermRest(s, r.i, env, exact, r.v) ELSE BadVal

EvExprRest(s, i0, env, exact, acc) ==
    LET i == SkipSp(s, i0) IN
    IF i <= Len(s) /\ s[i] \in {"+", "-"} THEN
        LET r == EvTerm(s, i + 1, env, exact)
        IN IF ~r.ok THEN BadVal
           ELSE EvExprRest(s, r.i, env, exact, IF s[i] = "+" THEN acc + r.v ELSE acc - r.v)
    ELSE [ok |-> TRUE, v |-> acc, i |-> i]

EvExpr(s, i, env, exact) ==
    LET r == EvTerm(s, i, env, exact) IN IF r.ok THEN EvExprRest(s, r.i, env, exact, r.v) ELSE BadVal

\* the value of the whole text under env, or "undefined" when it is not a
\* well-formed expression (or divides by zero)
Evaluate(s, env) ==
    LET r == EvExpr(s, 1, env, FALSE)
    IN IF r.ok /\ SkipSp(s, r.i) = Len(s) + 1 THEN <<"value", r.v>> ELSE <<"undefined", 0>>
\* the value of a text without identifiers all of whose divisions leave no
\* remainder, "undefined" for any other text
EvaluateExact(s) ==
    LET r == EvExpr(s, 1, << >>, TRUE)
    IN IF r.ok /\ SkipSp(s, r.i) = Len(s) + 1 THEN <<"value", r.v>> ELSE <<"undefined", 0>>

(***************************************************************************)
(* Inputs of the simplifier: size expressions as the upstream generator    *)
(* writes them, over the identifiers a, b and the literal 0                *)
(***************************************************************************)
\* operands per parenthesised chain
MaxOperands == 3
Atoms == {<<"a">>, <<"b">>, <<"0">>, <<"(", "0", ")">>}
BinOps == {"+", "-", "*"}
Paren(x) == <<"(">> \o x \o <<")">>
\* x op y, written with or without blanks around the operator
Bin(x, op, y, sp) == x \o (IF sp THEN <<" ", op, " ">> ELSE <<op>>) \o y

RECURSIVE Chains(_, _)
\* atom (op atom)*, with at most n operands
Chains(n, sp) ==
    IF n = 1 THEN Atoms
    ELSE Chains(n - 1, sp) \cup
         {Bin(c, op, x, sp) : c \in Chains(n - 1, sp), op \in BinOps, x \in Atoms}

Factors(sp) ==
    Atoms \cup {Paren(c) : c \in Chains(MaxOperands, sp)}
          \cup {Paren(Paren(c)) : c \in Chains(1, sp)}
Simple == {<<"a">>, <<"b">>, <<"(", "b", ")">>}
SizeExprs(sp) ==
    Factors(sp)
    \cup {Bin(f, op, g, sp) : f \in Factors(sp), op \in BinOps, g \in Simple}
    \cup {Bin(g, op, f, sp) : f \in Factors(sp), op \in BinOps, g \in Simple}

(***************************************************************************)
(* Inputs of the rewriter: files of up to MaxStmts statements, one a line  *)
(***************************************************************************)
MaxStmts == 2
BufNames == {<<"a">>, <<"b">>}
CallocSizes == {<<"n">>, <<"(", "n", " ", "-", " ", "(", "0", ")", ")">>, <<"(", "n", ")", " ", "*", " ", "(", "m", ")">>}
CallocStmt(v, size) == <<"f", "l", "o", "a", "t", " ", "*">> \o v \o <<" ", "=", " ", "c", "a", "l", "l", "o", "c", "(">> \o size \o <<",", " ", "s", "i", "z", "e", "o", "f", "(", "f", "l", "o", "a", "t", ")", ")", ";">>
FreeStmt(arg) == <<"f", "r", "e", "e", "(">> \o arg \o <<")", ";">>
VlaStmt(v, size) == <<"f", "l", "o", "a", "t", " ">> \o v \o <<"[">> \o size \o <<"]", ";">>
StoreStmt(v, idx) == v \o <<"[">> \o idx \o <<"]", " ", "=", " ", "0", ";">>
Stmts ==
    {CallocStmt(v, z) : v \in BufNames, z \in CallocSizes}
    \cup {FreeStmt(v) : v \in BufNames}
    \cup {FreeStmt(Paren(v)) : v \in BufNames}
    \cup {VlaStmt(v, <<"(", "n", " ", "+", " ", "(", "0", ")", ")">>) : v \in BufNames}
    \cup {StoreStmt(v, <<"(", "i", " ", "-", " ", "(", "0", ")", ")">>) : v \in BufNames}

RECURSIVE StmtSeqs(_)
\* the sequences of at most n statements
StmtSeqs(n) ==
    IF n = 1 THEN {<<st>> : st \in Stmts}
    ELSE StmtSeqs(n - 1) \cup {Append(f, st) : f \in StmtSeqs(n - 1), st \in Stmts}

Declares(st, v) ==
    \/ \E z \in CallocSizes : st = CallocStmt(v, z)
    \/ st = VlaStmt(v, <<"(", "n", " ", "+", " ", "(", "0", ")", ")">>)
\* the statements share one scope: C declares a name at most once in it
OneScope(f) ==
    \A v \in BufNames : Cardinality({j \in 1..Len(f) : Declares(f[j], v)}) <= 1

RECURSIVE JoinLines(_)
\* '\n'.join(lines)
JoinLines(lines) ==
    IF Len(lines) = 0 THEN << >>
    ELSE IF Len(lines) = 1 THEN lines[1]
    ELSE lines[1] \o <<"\n">> \o JoinLines(Tail(lines))

Files(n) == {JoinLines(f) : f \in {g \in StmtSeqs(n) : OneScope(g)}}

\* the assignments of the identifiers the equivalence is checked under
Envs == [{<<"a">>, <<"b">>} -> 1..3]

(***************************************************************************)
(* Inputs of the loader: JSON values of at most MaxNodes nodes             *)
(***************************************************************************)
MaxNodes == 4
JLeaves == {JInt(1), JFloat(5, 2), JTrue, JStr, JNull, JDict}

RECURSIVE JOfSize(_)
RECURSIVE JForests(_)
\* the values of exactly n nodes
JOfSize(n) ==
    IF n = 1 THEN JLeaves \cup {JList(<< >>)}
    ELSE {JList(f) : f \in JForests(n - 1)}
\* the sequences of values of n nodes in all
JForests(n) ==
    IF n = 0 THEN {<< >>}
    ELSE UNION {{<<t>> \o f : t \in JOfSize(j), f \in JForests(n - j)} : j \in 1..n}

JValues == UNION {JOfSize(n) : n \in 1..MaxNodes}

(***************************************************************************)
(* Inputs of the folder: one array index or one loop bound, its expression *)
(* up to MaxTerms operands separated by blanks                             *)
(***************************************************************************)
MaxTerms == 3
FoldOperands == {<<"2">>, <<"7">>, <<"N">>, <<"i">>, <<"(", " ", "2", " ", "+", " ", "7", " ", ")">>, <<"(">>, <<")">>}
FoldOps == {"+", "-", "*", "/"}

RECURSIVE FoldExprs(_)
\* operand (op operand)*, with at most n operands
FoldExprs(n) ==
    IF n = 1 THEN FoldOperands
    ELSE FoldExprs(n - 1) \cup
         {Bin(e, op, x, TRUE) : e \in FoldExprs(n - 1), op \in FoldOps, x \in FoldOperands}

\* x[e]
IndexCode(e) == <<"x", "[">> \o e \o <<"]">>
\* i < e;
BoundCode(e) == <<"i", " ", "<", " ">> \o e \o <<";">>
FoldCodes == {IndexCode(e) : e \in FoldExprs(MaxTerms)}
             \cup {BoundCode(e) : e \in FoldExprs(MaxTerms)}
\* the bindings of the scalar parameter N
FoldBindings == {<<<<<<"N">>, 8>>>>}

(***************************************************************************)
(* Inputs of the wrapper generator                                         *)
(***************************************************************************)
MaxParams == 3
\* the parameters signatures are built of: a scalar, an input buffer, the
\* output buffer in two spellings, and a scalar whose name contains "output"
ParamPool ==
    { <<<<"i", "n", "t">>, <<"N">>>>, <<<<"f", "l", "o", "a", "t", "*">>, <<"x">>>>, <<<<"f", "l", "o", "a", "t", "*">>, <<"o", "u", "t", "p", "u", "t">>>>,
      <<<<"f", "l", "o", "a", "t", "*">>, <<"O", "u", "t", "p", "u", "t">>>>, <<<<"i", "n", "t">>, <<"n", "_", "o", "u", "t", "p", "u", "t">>>> }
RECURSIVE ParamLists(_)
\* the lists of n parameters of distinct names
ParamLists(n) ==
    IF n = 0 THEN { << >> }
    ELSE { Append(ps, p) : ps \in ParamLists(n - 1), p \in ParamPool } 
ParamSeqs ==
    { ps \in UNION { ParamLists(n) : n \in 1..MaxParams } :
        \A j, h \in 1..Len(ps) : j # h => ps[j][2] # ps[h][2] }
Signatures == { [name |-> <<"f">>, return_type |-> <<"v", "o", "i", "d">>, params |-> ps] : ps \in ParamSeqs }
IntArgLists == { << >>, <<8>>, <<8, 3>> }
\* a short array and one of more than ten values, as load_json_array returns them
ShortArray == <<[k |-> "float", v |-> <<1, 1>>], [k |-> "float", v |-> <<5, 2>>]>>
LongArray == [j \in 1..11 |-> [k |-> "float", v |-> <<0 - j, 4>>]]
ArrayArgLists == { << >>, <<ShortArray>>, <<ShortArray, LongArray>> }
\* the texts of lib_dir/f.c
CFiles ==
    { <<"absent">>,
      <<"file", <<"v", "o", "i", "d", " ", "f", "(", "i", "n", "t", " ", "N", ")", " ", "{", "\n", " ", " ", " ", " ", "f", "l", "o", "a", "t", " ", "t", "[", "N", "]", ";", "\n", " ", " ", " ", " ", "o", "u", "t", "p", "u", "t", "[", "0", "]", " ", "=", " ", "t", "[", "N", " ", "-", " ", "8", "]", ";", "\n", "}", "\n">>>>,
      <<"file", <<"v", "o", "i", "d", " ", "f", "(", "i", "n", "t", " ", "N", ")", " ", "{", "\n", " ", " ", " ", " ", "f", "l", "o", "a", "t", " ", "a", "[", "2", "]", "[", "3", "]", ";", "\n", "}">>>>,
      <<"file", <<"v", "o", "i", "d", " ", "f", "(", "i", "n", "t", " ", "N", ")", " ", "{", "\n", " ", " ", " ", " ", "i", "f", " ", "(", "N", ")", " ", "{", " ", "g", "(", ")", ";", " ", "}", "\n", "\n", "}">>>>,
      <<"file", <<"v", "o", "i", "d", " ", "f", "(", "i", "n", "t", " ", "N", ")", " ", "{", "}">>>>,
      <<"file", <<"i", "n", "t", " ", "f", "(", "i", "n", "t", " ", "N", ")", " ", "{", " ", "}">>>>,
      <<"file", <<"v", "o", "i", "d", " ", "f", "(", "i", "n", "t", " ", "N", ")", " ", "{", "\n", " ", " ", " ", " ", "f", "l", "o", "a", "t", " ", "t", "[", "N", "]", ";">>>> }

(***************************************************************************)
(* Inputs of main: the command line and the files it names                 *)
(***************************************************************************)
MaxArgs == 3
\* a number, a data file that loads, one that holds a string, one that is
\* missing, and a text that is no number
ArgPool == { <<"8">>, <<"@", "a">>, <<"@", "b">>, <<"@", "c">>, <<"x", "8">> }
RECURSIVE ArgLists(_)
ArgLists(n) ==
    IF n = 0 THEN { << >> } ELSE { Append(as, a) : as \in ArgLists(n - 1), a \in ArgPool }
\* nargs='+': at least one argument
ArgSeqs == UNION { ArgLists(n) : n \in 1..MaxArgs }
\* the data file at a path
DataFile(filepath) ==
    IF filepath = <<"a">> THEN <<"json", JList(<<JInt(1), JList(<<JFloat(5, 2)>>)>>)>>
    ELSE IF filepath = <<"b">> THEN <<"json", JList(<<JInt(1), JStr>>)>>
    ELSE <<"absent">>
\* what the headers of lib_dir declare
Registries ==
    { {},
      { [name |-> <<"f">>, return_type |-> <<"v", "o", "i", "d">>,
         params |-> <<<<<<"i", "n", "t">>, <<"N">>>>, <<<<"f", "l", "o", "a", "t", "*">>, <<"x">>>>, <<<<"f", "l", "o", "a", "t", "*">>, <<"o", "u", "t", "p", "u", "t">>>>>>] },
      { [name |-> <<"f">>, return_type |-> <<"v", "o", "i", "d">>,
         params |-> <<<<<<"f", "l", "o", "a", "t", "*">>, <<"O", "u", "t", "p", "u", "t">>>>, <<<<"i", "n", "t">>, <<"n", "_", "o", "u", "t", "p", "u", "t">>>>>>] } }
CommandLines ==
    [ function_name : { <<"f">>, <<"g">> }, args : ArgSeqs, output_size : {4},
      no_inline : BOOLEAN, compile : BOOLEAN, run : BOOLEAN ]
\* the file at args.output before the run
OldFile == <<"file", <<<<"/", "/", " ", "o", "l", "d">>>>>>

(***************************************************************************)
(* Inputs of replace_calloc.py main: the command line, the files the glob  *)
(* lists (in any order, up to MaxFiles of them) and the disk               *)
(***************************************************************************)
MaxFiles == 3
SourceNames == {<<"a", ".", "c">>, <<"b", ".", "c">>, <<"c", ".", "c">>}
OutputNames == {<<"a", ".", "v", "l", "a", ".", "c">>, <<"b", ".", "v", "l", "a", ".", "c">>, <<"c", ".", "v", "l", "a", ".", "c">>}
GlobNames == SourceNames \cup {<<"a", ".", "v", "l", "a", ".", "c">>}
DiskNames == SourceNames \cup OutputNames \cup {<<"o", ".", "c">>}

RECURSIVE GlobLists(_)
\* the lists of n distinct names the glob can return
GlobLists(n) ==
    IF n = 0 THEN {<< >>}
    ELSE {Append(l, x) : l \in GlobLists(n - 1), x \in GlobNames} \ {l \in {Append(l, x) : l \in GlobLists(n - 1), x \in GlobNames} : \E i, j \in 1..n : i < j /\ l[i] = l[j]}

CallocFile == <<"text", <<"f", "l", "o", "a", "t", " ", "*", "a", " ", "=", " ", "c", "a", "l", "l", "o", "c", "(", "(", "n", " ", "-", " ", "(", "0", ")", ")", ",", " ", "s", "i", "z", "e", "o", "f", "(", "f", "l", "o", "a", "t", ")", ")", ";", "\n", "f", "r", "e", "e", "(", "a", ")", ";">>>>
PlainFile == <<"text", <<"x", "[", "(", "0", ")", "]", " ", "=", " ", "1", ";">>>>

SourceEntries(name) ==
    IF name = <<"a", ".", "c">> THEN {CallocFile, PlainFile, <<"unreadable">>}
    ELSE {CallocFile, <<"unreadable">>}
OutputEntries(name) ==
    IF name = <<"a", ".", "v", "l", "a", ".", "c">> THEN {PlainFile, <<"dir">>, <<"absent">>}
    ELSE IF name = <<"b", ".", "v", "l", "a", ".", "c">> THEN {<<"dir">>, <<"absent">>}
    ELSE {<<"absent">>}

Disks ==
    { [x \in DiskNames |-> IF x \in SourceNames THEN ins[x]
                           ELSE IF x \in OutputNames THEN outs[x]
                           ELSE <<"absent">>] :
        ins \in { f \in [SourceNames -> {CallocFile, PlainFile, <<"unreadable">>}] :
                     \A x \in SourceNames : f[x] \in SourceEntries(x) },
        outs \in { f \in [OutputNames -> {PlainFile, <<"dir">>, <<"absent">>}] :
                     \A x \in OutputNames : f[x] \in OutputEntries(x) } }

ReplaceArgs ==
    { [kind |-> "missing", input |-> <<"a", ".", "c">>, output |-> None, in_place |-> FALSE] }
    \cup { [kind |-> "file", input |-> <<"a", ".", "c">>, output |-> o, in_place |-> ip] :
             o \in {None, <<"o", ".", "c">>}, ip \in BOOLEAN }
    \cup { [kind |-> "dir", input |-> <<"s", "r", "c">>, output |-> None, in_place |-> ip] : ip \in BOOLEAN }

(***************************************************************************)
(* Inputs of read_function_body: the file lib_dir/f.c, a function header   *)
(* followed by up to MaxBody characters of body                            *)
(***************************************************************************)
MaxBody == 4
BodyHeaders ==
    { <<"v", "o", "i", "d", " ", "f", "(", "i", "n", "t", " ", "N", ")", " ", "{">>, <<"v", "o", "i", "d", " ", " ", "f", " ", "(", "i", "n", "t", " ", "N", ")", "\n", "{">>, <<"i", "n", "t", " ", "f", "(", "i", "n", "t", " ", "N", ")", " ", "{">>, <<"v", "o", "i", "d", " ", "f", "(", ")", " ", "{">>, <<"v", "o", "i", "d", " ", "f", "(", "i", "n", "t", " ", "N", ")", ";">>,
      <<"/", "/", " ", "v", "o", "i", "d", " ", "f", "(", "x", ")", "{", "\n", "v", "o", "i", "d", " ", "f", "(", "i", "n", "t", " ", "N", ")", " ", "{", " ">> }
BodyChars == {"{", "}", "x", " "}

RECURSIVE BodyTails(_)
\* the texts of up to n characters
BodyTails(n) ==
    IF n = 0 THEN {<< >>}
    ELSE BodyTails(n - 1) \cup {Append(t, c) : t \in BodyTails(n - 1), c \in BodyChars}

BodyFiles ==
    { <<"absent">> } \cup { <<"file", h \o t>> : h \in BodyHeaders, t \in BodyTails(MaxBody) }

\* read_function_body has not been called yet
Pending == <<"pending">>

VARIABLES
    expr,        \* simplifier: the expression text handed to simplify_expression
    simplified,  \* simplifier: the results of the successive calls
    c_code,      \* rewriter: the text of the file read
    transformed, \* rewriter: the text written back, None before the transform
    stats,       \* rewriter: the counts and warnings reported
    json_file,   \* loader: the file at filepath, <<"json", value>> or <<"absent">>
    loaded,      \* loader: what load_json_array returned or raised, None before
    param_values,\* folder: the bindings <<name, value>> of the scalar parameters
    code,        \* folder: the text handed to fold_code
    folded,      \* folder: the text fold_code returned, None before
    func_sig,    \* generator: the signature [name, return_type, params]
    c_file,      \* generator: lib_dir/<name>.c, <<"file", content>> or <<"absent">>
    int_args,    \* generator: the scalar arguments
    array_args,  \* generator: the flattened array arguments
    output_size, \* generator: the size of the output array
    inline,      \* generator: whether the body is to be inlined
    wrapper,     \* generator: the lines generate returned, None before
    argv,        \* main: the parsed command line, None outside main
    registry,    \* main: the signatures scan_lib_directory found, by name
    output_file, \* main: the file at args.output, <<"file", lines>> or <<"absent">>
    pc,          \* main: the position in main
    result,      \* main: <<"returncode", n>> of the last subprocess, None before
    exit_code,   \* main: what main returned, None before
    rc_args,     \* replace_calloc main: the command line and what args.input is
    c_files,     \* replace_calloc main: list(args.input.glob(pattern))
    disk,        \* replace_calloc main: the files, by name
    total_stats, \* replace_calloc main: the running totals
    log,         \* replace_calloc main: the outcome reported for each file, in order
    next_file,   \* replace_calloc main: the position in c_files
    rc_pc,       \* replace_calloc main: the position in main
    rc_exit,     \* replace_calloc main: <<"return", n>> or <<"raise">>, None before
    fn_name,     \* read_function_body: self.func_sig.name
    fn_file,     \* read_function_body: lib_dir/<name>.c, <<"file", content>> or <<"absent">>
    func_body    \* read_function_body: what it returned, Pending before

simplifyVars == <<expr, simplified>>
rewriteVars == <<c_code, transformed, stats>>
loadVars == <<json_file, loaded>>
foldVars == <<param_values, code, folded>>
generateVars == <<func_sig, c_file, int_args, array_args, output_size, inline, wrapper>>
mainVars == <<argv, registry, output_file, pc, result, exit_code>>
replaceVars == <<rc_args, c_files, disk, total_stats, log, next_file, rc_pc, rc_exit>>
bodyVars == <<fn_name, fn_file, func_body>>
vars == <<simplifyVars, rewriteVars, loadVars, foldVars, generateVars, mainVars, replaceVars,
          bodyVars>>

\* the value of the variables of the components a specification leaves out
SimplifyIdle == expr = << >> /\ simplified = << >>
RewriteIdle == c_code = << >> /\ transformed = None /\ stats = None
LoadIdle == json_file = <<"absent">> /\ loaded = None
FoldIdle == param_values = << >> /\ code = << >> /\ folded = None
GenerateIdle ==
    /\ func_sig = None /\ c_file = <<"absent">> /\ int_args = << >> /\ array_args = << >>
    /\ output_size = 0 /\ inline = FALSE /\ wrapper = None
MainIdle ==
    /\ argv = None /\ registry = {} /\ output_file = <<"absent">>
    /\ pc = "idle" /\ result = None /\ exit_code = None
ReplaceIdle ==
    /\ rc_args = None /\ c_files = << >> /\ disk = << >> /\ total_stats = None
    /\ log = << >> /\ next_file = 0 /\ rc_pc = "idle" /\ rc_exit = None
BodyIdle == fn_name = << >> /\ fn_file = <<"absent">> /\ func_body = Pending

SimplifyInit ==
    /\ expr \in SizeExprs(TRUE) \cup SizeExprs(FALSE)
    /\ simplified = << >>
    /\ RewriteIdle /\ LoadIdle /\ FoldIdle /\ GenerateIdle /\ MainIdle /\ ReplaceIdle /\ BodyIdle

\* one more call of simplify_expression on the last result
SimplifyCall ==
    /\ Len(simplified) < 2
    /\ simplified' = Append(simplified,
           simplify_expression(IF simplified = << >> THEN expr
                               ELSE simplified[Len(simplified)]))
    /\ UNCHANGED <<expr, rewriteVars, loadVars, foldVars, generateVars, mainVars, replaceVars, bodyVars>>

SimplifyNext == SimplifyCall
SpecSimplify == SimplifyInit /\ [][SimplifyNext]_vars

\* C1: a second call of simplify_expression returns what the first returned
C1_Idempotent ==
    Len(simplified) = 2 => simplified[2] = simplified[1]

\* C2: the simplified text has the value of the original text under every
\* assignment of the identifiers
C2_SameValue ==
    Len(simplified) >= 1 =>
        \A env \in Envs : Evaluate(simplified[1], env) = Evaluate(expr, env)

(***************************************************************************)
(* The rewriter                                                            *)
(***************************************************************************)
RewriteInit ==
    /\ c_code \in Files(MaxStmts)
    /\ transformed = None
    /\ stats = None
    /\ SimplifyIdle /\ LoadIdle /\ FoldIdle /\ GenerateIdle /\ MainIdle /\ ReplaceIdle /\ BodyIdle

\* transformed, stats = transform_calloc_to_vla(original)
Transform ==
    /\ transformed = None
    /\ \E r \in {transform_calloc_to_vla(c_code)} :
          transformed' = r.code /\ stats' = r.stats
    /\ UNCHANGED <<c_code, simplifyVars, loadVars, foldVars, generateVars, mainVars, replaceVars, bodyVars>>

RewriteNext == Transform
SpecRewrite == RewriteInit /\ [][RewriteNext]_vars

\* the names of the buffers the calloc pass rewrote
Rewritten(text) ==
    LET ms == FindAll(calloc_pattern, text, 1)
    IN {Group(text, ms[j], 1) : j \in 1..Len(ms)}
\* the declarations float v[...]; of a text
DeclsOf(text, v) ==
    FindAll(Lit(<<"f", "l", "o", "a", "t", " ">> \o v \o <<"[">>) \o <<NotPlus({";", "\n"})>> \o Lit(<<";">>), text, 1)
\* position p of the text is behind a // of its line
InComment(text, p) ==
    \E j \in 1..(p - 2) :
        /\ text[j] = "/" /\ text[j + 1] = "/"
        /\ \A q \in j..(p - 1) : text[q] # "\n"
\* a call free(v); of the text that is not in a comment
ExecFree(text, v) ==
    LET ms == FindAll(Lit(<<"f", "r", "e", "e", "(">> \o v \o <<")", ";">>), text, 1)
    IN \E j \in 1..Len(ms) : ~InComment(text, ms[j].start)

\* C3: after the transform every rewritten buffer has exactly one declaration
\* float name[...]; and no call free(name); outside a comment
C3_OneDeclNoFree ==
    transformed # None =>
        \A v \in Rewritten(c_code) :
            /\ Len(DeclsOf(transformed, v)) = 1
            /\ ~ExecFree(transformed, v)

(***************************************************************************)
(* The loader                                                              *)
(***************************************************************************)
LoadInit ==
    /\ json_file \in {<<"absent">>} \cup {<<"json", d>> : d \in JValues}
    /\ loaded = None
    /\ SimplifyIdle /\ RewriteIdle /\ FoldIdle /\ GenerateIdle /\ MainIdle /\ ReplaceIdle /\ BodyIdle

\* ArrayLoader.load_json_array(filepath)
Load ==
    /\ loaded = None
    /\ loaded' = load_json_array(json_file)
    /\ UNCHANGED <<json_file, simplifyVars, rewriteVars, foldVars, generateVars, mainVars, replaceVars, bodyVars>>

LoadNext == Load
SpecLoad == LoadInit /\ [][LoadNext]_vars

\* the node of a value at a path of item indices
RECURSIVE NodeAt(_, _)
NodeAt(d, path) ==
    IF path = << >> THEN d ELSE NodeAt(d.v[Head(path)], Tail(path))
\* the paths of the leaves (the nodes that are not lists) of a value
RECURSIVE LeafPaths(_)
LeafPaths(d) ==
    IF d.k # "list" THEN {<< >>}
    ELSE UNION {{<<j>> \o p : p \in LeafPaths(d.v[j])} : j \in 1..Len(d.v)}
\* path p is left of path q: smaller at the first index where they differ
\* (no leaf path is a prefix of another)
LeftOf(p, q) ==
    \E j \in 1..Len(p) :
        /\ j <= Len(q) /\ p[j] < q[j]
        /\ \A h \in 1..(j - 1) : p[h] = q[h]
NumbersOnly(d) ==
    d.k = "list" /\ \A p \in LeafPaths(d) : NodeAt(d, p).k \in {"int", "float"}

\* C7: a nested list whose leaves are numbers loads to a flat sequence with one
\* element per leaf, the leaves in depth-first left-to-right order
C7_FlattenOrder ==
    (loaded # None /\ json_file # <<"absent">> /\ NumbersOnly(json_file[2])) =>
        LET d == json_file[2] IN
        /\ loaded[1] = "return"
        /\ Len(loaded[2]) = Cardinality(LeafPaths(d))
        /\ \A p \in LeafPaths(d) :
              loaded[2][1 + Cardinality({q \in LeafPaths(d) : LeftOf(q, p)})]
                  = [k |-> "float", v |-> NodeAt(d, p).v]
\* a nested list with two different numbers at different depths was loaded
C7_Witness ==
    /\ loaded # None /\ json_file # <<"absent">> /\ NumbersOnly(json_file[2])
    /\ \E p, q \in LeafPaths(json_file[2]) :
          Len(p) # Len(q) /\ NodeAt(json_file[2], p).v # NodeAt(json_file[2], q).v

\* C8: a value with a leaf that is not a number (string, null, object, boolean)
\* makes load_json_array fail
C8_NonNumericFails ==
    (loaded # None /\ json_file # <<"absent">>) =>
        ((\E p \in LeafPaths(json_file[2]) :
              NodeAt(json_file[2], p).k \notin {"int", "float"}) => loaded[1] = "raise")

(***************************************************************************)
(* The folder                                                              *)
(***************************************************************************)
\* the repr of every float the fold produces is one the model computes
AllModelled(text) == \A j \in 1..Len(text) : text[j] # "?"
ReprModelled(pv, c) == AllModelled(fold_code(pv, c))

FoldInit ==
    /\ param_values \in FoldBindings
    /\ code \in {c \in FoldCodes : ReprModelled(param_values, c)}
    /\ folded = None
    /\ SimplifyIdle /\ RewriteIdle /\ LoadIdle /\ GenerateIdle /\ MainIdle /\ ReplaceIdle /\ BodyIdle

\* folded_body = folder.fold_code(func_body)
Fold ==
    /\ folded = None
    /\ folded' = fold_code(param_values, code)
    /\ UNCHANGED <<param_values, code, simplifyVars, rewriteVars, loadVars,
                   generateVars, mainVars, replaceVars, bodyVars>>

FoldNext == Fold
SpecFold == FoldInit /\ [][FoldNext]_vars

\* the code after name substitution, and its one expression
Substituted == SubstituteParams(param_values, code)
IsIndex(c) == Len(c) > 3 /\ SubSeq(c, 1, 2) = <<"x", "[">> /\ c[Len(c)] = "]"
IsBound(c) == Len(c) > 5 /\ SubSeq(c, 1, 4) = <<"i", " ", "<", " ">> /\ c[Len(c)] = ";"
TheExpr(c) == IF IsIndex(c) THEN SubSeq(c, 3, Len(c) - 1) ELSE SubSeq(c, 5, Len(c) - 1)

\* C4: a bracketed expression that is fully literal, without a division
\* remainder, is replaced by its value written as an integer literal
C4_BracketExact ==
    (folded # None /\ IsIndex(Substituted)) =>
        LET v == EvaluateExact(TheExpr(Substituted))
        IN v[1] = "value" => folded = IndexCode(IntStr(v[2]))

\* C5: a bracketed or comparison-operand expression that is not a fully literal
\* integer-valued expression is left as it was after name substitution
C5_UnfoldedVerbatim ==
    folded # None =>
        (EvaluateExact(TheExpr(Substituted))[1] = "undefined" => folded = Substituted)

(***************************************************************************)
(* WrapperGenerator.generate, called once on arbitrary arguments           *)
(***************************************************************************)
GenerateInit ==
    /\ func_sig \in Signatures
    /\ c_file \in CFiles
    /\ int_args \in IntArgLists
    /\ array_args \in ArrayArgLists
    /\ output_size = 4
    /\ inline \in BOOLEAN
    /\ wrapper = None
    /\ SimplifyIdle /\ RewriteIdle /\ LoadIdle /\ FoldIdle /\ MainIdle /\ ReplaceIdle /\ BodyIdle

Generate ==
    /\ wrapper = None
    /\ wrapper' = generate(func_sig, c_file, int_args, array_args, output_size, inline)
    /\ UNCHANGED <<func_sig, c_file, int_args, array_args, output_size, inline,
                   simplifyVars, rewriteVars, loadVars, foldVars, mainVars, replaceVars, bodyVars>>

GenerateNext == Generate
SpecGenerate == GenerateInit /\ [][GenerateNext]_vars

\* the parameters of each kind, by position in the signature
Scalars(sig) == { j \in 1..Len(sig.params) : ~IsPointer(sig.params[j]) }
InputBuffers(sig) ==
    { j \in 1..Len(sig.params) : IsPointer(sig.params[j]) /\ ~IsOutputName(sig.params[j]) }
\* the argument-count preconditions of generate
CountsHold ==
    /\ Len(int_args) = Cardinality(Scalars(func_sig))
    /\ Len(array_args) = Cardinality(InputBuffers(func_sig))
\* generate has no body to inline
DirectCall == ~inline \/ read_function_body(func_sig.name, c_file) = None
\* the lines of the program that call the function, and the arguments
\* written in such a line
StartsWith(line, prefix) ==
    Len(line) >= Len(prefix) /\ SubSeq(line, 1, Len(prefix)) = prefix
CallLines ==
    SelectSeq(wrapper, LAMBDA line : StartsWith(Strip(line), func_sig.name \o <<"(">>))
WrittenArgs(line) ==
    LET ms == FindAll(<<NotPlus({",", "(", ")", " ", ";"})>>, line, 1)
    IN [j \in 1..(Len(ms) - 1) |-> SubSeq(line, ms[j + 1].start, ms[j + 1].end - 1)]
\* the scalar argument of the j-th parameter: the one at its place among the scalars
ScalarArg(j) == IntStr(int_args[Cardinality({ h \in Scalars(func_sig) : h <= j })])

\* C9 as stated: the direct call has one argument per parameter, in order:
\* a scalar parameter gets its scalar argument, an input buffer its name,
\* and every parameter whose name contains "output" gets output
C9_OutputByName ==
    (wrapper # None /\ DirectCall /\ CountsHold) =>
        /\ Len(CallLines) = 1
        /\ LET written == WrittenArgs(CallLines[1])
           IN /\ Len(written) = Len(func_sig.params)
              /\ \A j \in 1..Len(func_sig.params) :
                    /\ j \in Scalars(func_sig) => written[j] = ScalarArg(j)
                    /\ j \in InputBuffers(func_sig) => written[j] = func_sig.params[j][2]
                    /\ IsOutputName(func_sig.params[j]) => written[j] = <<"o", "u", "t", "p", "u", "t">>

\* C9, amended: the direct call has one argument per parameter, in order:
\* a scalar parameter gets its scalar argument whatever its name, an input
\* buffer its name, and every pointer parameter whose name contains
\* "output" gets output
C9_CallArguments ==
    (wrapper # None /\ DirectCall /\ CountsHold) =>
        /\ Len(CallLines) = 1
        /\ LET written == WrittenArgs(CallLines[1])
           IN /\ Len(written) = Len(func_sig.params)
              /\ \A j \in 1..Len(func_sig.params) :
                    /\ j \in Scalars(func_sig) => written[j] = ScalarArg(j)
                    /\ j \in InputBuffers(func_sig) => written[j] = func_sig.params[j][2]
                    /\ (IsPointer(func_sig.params[j]) /\ IsOutputName(func_sig.params[j]))
                          => written[j] = <<"o", "u", "t", "p", "u", "t">>
\* C9: a direct call was emitted, inlining asked for but no body found, for
\* a signature with a scalar named after the output, an input buffer and a
\* capitalised output buffer
C9_Witness ==
    /\ wrapper # None /\ DirectCall /\ CountsHold /\ inline
    /\ func_sig.params = <<<<<<"i", "n", "t">>, <<"n", "_", "o", "u", "t", "p", "u", "t">>>>, <<<<"f", "l", "o", "a", "t", "*">>, <<"x">>>>, <<<<"f", "l", "o", "a", "t", "*">>, <<"O", "u", "t", "p", "u", "t">>>>>>
    /\ WrittenArgs(CallLines[1]) = <<<<"8">>, <<"x">>, <<"o", "u", "t", "p", "u", "t">>>>

\* the lines of the inlined body: those after the comment that opens it, up
\* to the comment that opens the print loop
InlinedText ==
    LET from == CHOOSE j \in 1..Len(wrapper) :
                    wrapper[j] = <<" ", " ", " ", " ", "/", "/", " ", "I", "n", "l", "i", "n", "e", "d", " ", "a", "n", "d", " ", "c", "o", "n", "s", "t", "a", "n", "t", "-", "f", "o", "l", "d", "e", "d", " ", "f", "u", "n", "c", "t", "i", "o", "n", " ", "b", "o", "d", "y">>
        to == CHOOSE j \in 1..Len(wrapper) : wrapper[j] = <<" ", " ", " ", " ", "/", "/", " ", "P", "r", "i", "n", "t", " ", "o", "u", "t", "p", "u", "t">>
    IN JoinWith(<<"\n">>, SubSeq(wrapper, from + 1, to - 1))
Inlined ==
    /\ wrapper # None
    /\ \E j \in 1..Len(wrapper) : wrapper[j] = <<" ", " ", " ", " ", "/", "/", " ", "I", "n", "l", "i", "n", "e", "d", " ", "a", "n", "d", " ", "c", "o", "n", "s", "t", "a", "n", "t", "-", "f", "o", "l", "d", "e", "d", " ", "f", "u", "n", "c", "t", "i", "o", "n", " ", "b", "o", "d", "y">>
\* a float array declaration that ends without an initializer
BareDeclPat ==
    Lit(<<"f", "l", "o", "a", "t">>) \o <<Plus(SpaceCh), Plus(WordCh)>> \o Lit(<<"[">>)
    \o <<NotPlus({"=", ";", "\n"})>> \o Lit(<<";">>)

\* C10: no float array declaration without an initializer is left in an
\* inlined body
C10_ZeroInitialised ==
    Inlined => ~Search(BareDeclPat, InlinedText, 1).ok

\* the #include line that declares the library function
HeaderInclude == <<"#", "i", "n", "c", "l", "u", "d", "e", " ", "\"">> \o func_sig.name \o <<".", "h", "\"">>

\* C14: a program in which generate wrote the direct call, because inline
\* is false or because no body could be inlined, contains the #include of
\* the function's header
C14_IncludeDeclared ==
    (wrapper # None /\ ~Inlined /\ CallLines # << >>) =>
        \E j \in 1..Len(wrapper) : wrapper[j] = HeaderInclude

(***************************************************************************)
(* wrap.py main, step by step                                              *)
(***************************************************************************)
MainInit ==
    /\ argv \in CommandLines
    /\ registry \in Registries
    /\ c_file \in { <<"absent">>, <<"file", <<"v", "o", "i", "d", " ", "f", "(", "i", "n", "t", " ", "N", ")", " ", "{", "\n", " ", " ", " ", " ", "f", "l", "o", "a", "t", " ", "t", "[", "N", "]", ";", "\n", "}">>>> }
    /\ output_file \in { <<"absent">>, OldFile }
    /\ pc = "scan"
    /\ func_sig = None /\ int_args = << >> /\ array_args = << >>
    /\ output_size = 0 /\ inline = FALSE /\ wrapper = None
    /\ result = None /\ exit_code = None
    /\ SimplifyIdle /\ RewriteIdle /\ LoadIdle /\ FoldIdle /\ ReplaceIdle /\ BodyIdle

otherVars == <<simplifyVars, rewriteVars, loadVars, foldVars, replaceVars, bodyVars>>

\* return n
Return(n) == pc' = "done" /\ exit_code' = n

\* the scan of lib_dir and the lookup of the function
MainLookup ==
    /\ pc = "scan"
    /\ IF registry = {} \/ ~\E sig \in registry : sig.name = argv.function_name
       THEN Return(1) /\ UNCHANGED func_sig
       ELSE /\ func_sig' = CHOOSE sig \in registry : sig.name = argv.function_name
            /\ pc' = "args" /\ UNCHANGED exit_code
    /\ UNCHANGED <<c_file, int_args, array_args, output_size, inline, wrapper,
                   argv, registry, output_file, result, otherVars>>

\* one turn of the loop over args.args
MainArg ==
    /\ pc = "args"
    /\ Len(int_args) + Len(array_args) < Len(argv.args)
    /\ LET arg == argv.args[Len(int_args) + Len(array_args) + 1]
       IN IF arg[1] = "@" THEN
              LET arr_data == load_json_array(DataFile(Tail(arg)))
              IN IF arr_data[1] = "raise"
                 THEN Return(1) /\ UNCHANGED <<int_args, array_args>>
                 ELSE /\ array_args' = Append(array_args, arr_data[2])
                      /\ UNCHANGED <<int_args, pc, exit_code>>
          ELSE
              LET n == PyIntOf(arg)
              IN IF n[1] = "raise"
                 THEN Return(1) /\ UNCHANGED <<int_args, array_args>>
                 ELSE /\ int_args' = Append(int_args, n[2])
                      /\ UNCHANGED <<array_args, pc, exit_code>>
    /\ UNCHANGED <<func_sig, c_file, output_size, inline, wrapper,
                   argv, registry, output_file, result, otherVars>>

\* the type check after the loop
MainTypeCheck ==
    /\ pc = "args"
    /\ Len(int_args) + Len(array_args) = Len(argv.args)
    /\ IF CountsMatch(func_sig, int_args, array_args)
       THEN pc' = "generate" /\ UNCHANGED exit_code
       ELSE Return(1)
    /\ UNCHANGED <<generateVars, argv, registry, output_file, result, otherVars>>

\* code = generator.generate(...)
MainGenerate ==
    /\ pc = "generate"
    /\ inline' = ~argv.no_inline
    /\ output_size' = argv.output_size
    /\ wrapper' = generate(func_sig, c_file, int_args, array_args, argv.output_size,
                           ~argv.no_inline)
    /\ pc' = "write"
    /\ UNCHANGED <<func_sig, c_file, int_args, array_args,
                   argv, registry, output_file, result, exit_code, otherVars>>

\* f.write(code), then the return unless a compilation is asked for
MainWrite ==
    /\ pc = "write"
    /\ output_file' = <<"file", wrapper>>
    /\ IF argv.compile \/ argv.run
       THEN pc' = "compile" /\ UNCHANGED exit_code
       ELSE Return(0)
    /\ UNCHANGED <<generateVars, argv, registry, result, otherVars>>

\* subprocess.run(compile_cmd): the compiler returns any code
MainCompile ==
    /\ pc = "compile"
    /\ \E returncode \in {0, 1} :
          /\ result' = <<"returncode", returncode>>
          /\ IF returncode # 0 THEN Return(1)
             ELSE IF argv.run THEN pc' = "run" /\ UNCHANGED exit_code
             ELSE Return(0)
    /\ UNCHANGED <<generateVars, argv, registry, output_file, otherVars>>

\* subprocess.run of the compiled program, then return 0
MainRun ==
    /\ pc = "run"
    /\ \E returncode \in {0, 1} : result' = <<"returncode", returncode>>
    /\ Return(0)
    /\ UNCHANGED <<generateVars, argv, registry, output_file, otherVars>>

MainNext ==
    \/ MainLookup \/ MainArg \/ MainTypeCheck \/ MainGenerate
    \/ MainWrite \/ MainCompile \/ MainRun
SpecMain == MainInit /\ [][MainNext]_vars

\* the signature the command line names, and the arguments of each kind
Found == \E sig \in registry : sig.name = argv.function_name
TheSig == CHOOSE sig \in registry : sig.name = argv.function_name
ScalarArgs == { j \in 1..Len(argv.args) : argv.args[j][1] # "@" }
ArrayArgs == { j \in 1..Len(argv.args) : argv.args[j][1] = "@" }
\* the command line has not the arguments the signature asks for
Mismatch ==
    /\ pc # "idle" /\ Found
    /\ \/ Cardinality(ScalarArgs) # Cardinality(Scalars(TheSig))
       \/ Cardinality(ArrayArgs) # Cardinality(InputBuffers(TheSig))

\* C6: on a mismatch of the argument counts no step of main creates or
\* changes the output file, and the step that ends main returns 1
C6_CountCheckFirst ==
    [][Mismatch => /\ output_file' = output_file
                   /\ pc' = "done" => exit_code' = 1]_vars
\* C6: every argument was read, the counts did not match, and main returned
\* 1 with the old file in place
C6_Witness ==
    /\ Mismatch /\ pc = "done" /\ exit_code = 1
    /\ Len(int_args) + Len(array_args) = Len(argv.args)
    /\ Len(array_args) = 2
    /\ output_file = OldFile

\* a subprocess of main ended with a nonzero code
ProcessFailed == pc = "done" /\ result # None /\ result # <<"returncode", 0>>

\* C13: when the compiler, or the program run under --run, exits nonzero,
\* main returns nonzero and the generated file written before is in place
C13_StatusPropagated ==
    ProcessFailed => (exit_code # 0 /\ output_file = <<"file", wrapper>>)

(***************************************************************************)
(* replace_calloc.py main, step by step                                    *)
(***************************************************************************)
ReplaceInit ==
    /\ rc_args \in ReplaceArgs
    /\ c_files \in (IF rc_args.kind = "dir"
                    THEN UNION { GlobLists(n) : n \in 0..MaxFiles } ELSE { << >> })
    /\ disk \in { d \in Disks : \A j \in 1..Len(c_files) : d[c_files[j]] # <<"absent">> }
    /\ total_stats = [callocs_replaced |-> 0, frees_removed |-> 0, files |-> 0]
    /\ log = << >>
    /\ next_file = 0
    /\ rc_pc = "start"
    /\ rc_exit = None
    /\ SimplifyIdle /\ RewriteIdle /\ LoadIdle /\ FoldIdle /\ GenerateIdle /\ MainIdle /\ BodyIdle

restVars == <<simplifyVars, rewriteVars, loadVars, foldVars, generateVars, mainVars, bodyVars>>

\* return n
ReplaceReturn(n) == rc_pc' = "done" /\ rc_exit' = <<"return", n>>

\* the single file, whose exception nothing catches; the glob of a directory;
\* or the path that is neither
ReplaceMainStart ==
    /\ rc_pc = "start"
    /\ IF rc_args.kind = "file" THEN
           \E r \in { process_file(disk, rc_args.input, rc_args.output, rc_args.in_place) } :
               IF r.raised
               THEN /\ rc_pc' = "done" /\ rc_exit' = <<"raise">>
                    /\ UNCHANGED <<disk, total_stats, log, next_file>>
               ELSE /\ disk' = r.disk
                    /\ total_stats' = [callocs_replaced |-> r.stats.callocs_replaced,
                                       frees_removed |-> r.stats.frees_removed,
                                       files |-> 1]
                    /\ log' = Append(log, <<"ok", rc_args.input>>)
                    /\ ReplaceReturn(0)
                    /\ UNCHANGED next_file
       ELSE IF rc_args.kind = "dir" THEN
           IF c_files = << >>
           THEN ReplaceReturn(1) /\ UNCHANGED <<disk, total_stats, log, next_file>>
           ELSE /\ rc_pc' = "loop" /\ next_file' = 1
                /\ UNCHANGED <<disk, total_stats, log, rc_exit>>
       ELSE ReplaceReturn(1) /\ UNCHANGED <<disk, total_stats, log, next_file>>
    /\ UNCHANGED <<rc_args, c_files, restVars>>

\* one turn of the loop over c_files
ReplaceMainFile ==
    /\ rc_pc = "loop"
    /\ next_file <= Len(c_files)
    /\ next_file' = next_file + 1
    /\ IF IsVlaOutput(c_files[next_file])
       THEN UNCHANGED <<disk, total_stats, log>>
       ELSE \E r \in { process_file(disk, c_files[next_file], None, rc_args.in_place) } :
               IF r.raised
               THEN /\ log' = Append(log, <<"error", c_files[next_file]>>)
                    /\ UNCHANGED <<disk, total_stats>>
               ELSE /\ log' = Append(log, <<"ok", c_files[next_file]>>)
                    /\ disk' = r.disk
                    /\ total_stats' = AddStats(total_stats, r.stats)
    /\ UNCHANGED <<rc_args, c_files, rc_pc, rc_exit, restVars>>

\* the summary after the loop
ReplaceMainSummary ==
    /\ rc_pc = "loop"
    /\ next_file > Len(c_files)
    /\ ReplaceReturn(0)
    /\ UNCHANGED <<rc_args, c_files, disk, total_stats, log, next_file, restVars>>

ReplaceNext == ReplaceMainStart \/ ReplaceMainFile \/ ReplaceMainSummary
SpecReplace == ReplaceInit /\ [][ReplaceNext]_vars

\* the name carries the .vla marker
CarriesMarker(name) == Contains(name, <<".", "v", "l", "a">>)
\* the files of the list that are to be processed, in the order of the list
Attempted == SelectSeq(c_files, LAMBDA x : ~CarriesMarker(x))
\* where the output of a file goes in directory mode
BatchOutput(name) ==
    IF rc_args.in_place THEN name
    ELSE SubSeq(name, 1, Len(name) - 2) \o <<".", "v", "l", "a", ".", "c">>
\* the file cannot be read, or its output cannot be written
CannotProcess(name) == disk[name][1] # "text" \/ disk[BatchOutput(name)][1] = "dir"

\* C11: in directory mode every file without the .vla marker is attempted, in
\* order, whatever happened to the files before it; a failure is reported and
\* exactly the failing files are reported as errors; the run returns 0; main
\* returns 1 only for a missing input path or an empty list of files
C11_BatchContinues ==
    rc_pc = "done" =>
        /\ rc_exit = <<"return", 1>> <=>
              (rc_args.kind = "missing" \/ (rc_args.kind = "dir" /\ c_files = << >>))
        /\ (rc_args.kind = "dir" /\ c_files # << >>) =>
              /\ rc_exit = <<"return", 0>>
              /\ [j \in 1..Len(log) |-> log[j][2]] = Attempted
              /\ \A j \in 1..Len(log) :
                    (log[j][1] = "error") <=> CannotProcess(log[j][2])
              /\ total_stats.files = Cardinality({ j \in 1..Len(log) : log[j][1] = "ok" })
\* C11: a run over three files that skipped the marked one, reported the
\* failure of the first of the others and still processed the second
C11_Witness ==
    /\ rc_pc = "done" /\ rc_args.kind = "dir" /\ rc_exit = <<"return", 0>>
    /\ Len(c_files) = 3 /\ \E j \in 1..3 : CarriesMarker(c_files[j])
    /\ Len(log) = 2 /\ log[1][1] = "error" /\ log[2][1] = "ok"
    /\ disk[BatchOutput(log[2][2])][1] = "text"

(***************************************************************************)
(* WrapperGenerator.read_function_body, called once on an arbitrary file   *)
(***************************************************************************)
BodyInit ==
    /\ fn_name = <<"f">>
    /\ fn_file \in BodyFiles
    /\ func_body = Pending
    /\ SimplifyIdle /\ RewriteIdle /\ LoadIdle /\ FoldIdle /\ GenerateIdle /\ MainIdle
    /\ ReplaceIdle

\* func_body = self.read_function_body()
ReadBody ==
    /\ func_body = Pending
    /\ func_body' = read_function_body(fn_name, fn_file)
    /\ UNCHANGED <<fn_name, fn_file, simplifyVars, rewriteVars, loadVars, foldVars,
                   generateVars, mainVars, replaceVars>>

BodyNext == ReadBody
SpecBody == BodyInit /\ [][BodyNext]_vars

\* the opening pattern in the file
Opening == Search(BodyPat(fn_name), fn_file[2], 1)
HasOpening == fn_file # <<"absent">> /\ Opening.ok
\* the depth after position p, the scan having started at depth 1 behind
\* the opening brace
DepthAfter(p) ==
    1 + Cardinality({ j \in Opening.end..p : fn_file[2][j] = "{" })
      - Cardinality({ j \in Opening.end..p : fn_file[2][j] = "}" })
\* the positions at which the depth is back to zero
Closings == { p \in Opening.end..Len(fn_file[2]) : DepthAfter(p) = 0 }
FirstClosing == CHOOSE p \in Closings : \A q \in Closings : p <= q
\* the text after the opening brace, to the end of the file
RestOfFile == Strip(SubSeq(fn_file[2], Opening.end, Len(fn_file[2])))

\* C12: read_function_body returns nothing without the opening pattern;
\* otherwise the stripped text strictly between the opening brace and the
\* brace at which the depth first returns to zero; where the text ends
\* before that, nothing of what follows the opening brace is lost (the
\* result is nothing, or all of that text)
C12_BodyBetweenBraces ==
    func_body # Pending =>
        IF ~HasOpening THEN func_body = None
        ELSE IF Closings # {}
        THEN func_body = Strip(SubSeq(fn_file[2], Opening.end, FirstClosing - 1))
        ELSE func_body \in {None, RestOfFile}

====
